---- MODULE Spec2Model ----
(***************************************************************************)
(* Model of the SiteGuard video analyzer: the front end (src/App.tsx,      *)
(* src/services/apiService.ts), the backend (src/backend) and the          *)
(* pre-processing script (src/scripts/preprocess-video.sh).                *)
(*                                                                         *)
(* The state machines of this module, each with its own specification and  *)
(* each leaving the variables of the others unchanged:                     *)
(*   - FrameCapture: one call of captureFrameAtTime against one            *)
(*     HTMLVideoElement, with the decoder, the timers and the animation    *)
(*     frame as separate steps (SpecCapture / FairSpecCapture);            *)
(*   - VideoAnalysisFeature: the React state of the component, its event   *)
(*     handlers, the requests they leave in flight, the thumbnail effect   *)
(*     and the mock report store (Spec; SpecNoReset is Spec without form   *)
(*     resets and history loads);                                          *)
(*   - one thumbnail batch on its own (SpecBinder);                        *)
(*   - the parse block of handleAnalyzeVideo on one AI text (SpecParser);  *)
(*   - the audio inspection of the backend and of the script (SpecAudio);  *)
(*   - the backend: ingest, analyze route and report delete over one       *)
(*     database (SpecBackend);                                             *)
(*   - the mock report store with its clock (SpecRepo);                    *)
(*   - handleAnalyzeVideo with analyzeUploadedVideo on one AI response     *)
(*     (SpecHandler), the two thumbnail loops (SpecLoops) and one call of  *)
(*     uploadVideoFile with its polls (SpecPoller / FairSpecPoller).       *)
(***************************************************************************)
EXTENDS Integers, Sequences, FiniteSets, TLC

VARIABLES
    video,      \* the HTMLVideoElement handed to captureFrameAtTime
    call,       \* the state of one captureFrameAtTime call (its closure and promise)
    ui,         \* the React state of VideoAnalysisFeature (its useState cells)
    player,     \* the main <video> element: "none", "loading", "ready" or "failed"
    analyses,   \* handleAnalyzeVideo invocations awaiting upload or analysis
    saves,      \* addVideoAnalysisReport calls in flight
    updates,    \* updateVideoAnalysisReport calls in flight
    pendingLoads, \* getAllVideoAnalysisReports calls in flight
    store,      \* mockVideoAnalysisReports of apiService
    batches,    \* thumbnail batches started by the effect and not yet finished
    nextReq,    \* how many analyses have been started so far, plus one
    toast,      \* the toast with which handleSaveReport last refused to save
    clicks,     \* how many gestures the operator has made so far
    binder,     \* one thumbnail batch on its own: its closure and loop position
    captures,   \* the captureFrameAtTime calls that batch has made, in order
    parser,     \* one run of the parse block of handleAnalyzeVideo on one AI text
    audio,      \* one audio inspection: the tool, the descriptor and the verdict
    db,         \* the SQLite database of the backend: its tables
    ingests,    \* the processVideoFile calls of the backend, one per upload
    areqs,      \* the POST /api/analysis/analyze requests
    dreqs,      \* the DELETE /api/reports/:reportId requests
    repo,       \* apiService on its own: its report array, the clock and its callers
    poller      \* one call of uploadVideoFile: its position and its polls

capVars == <<video, call>>

uiVars == <<ui, player, analyses, saves, updates, pendingLoads, store, batches,
            nextReq, toast, clicks>>

\* The variables of the machines added to the first two.
binderVars == <<binder, captures>>

backVars == <<db, ingests, areqs, dreqs>>

extVars == <<binderVars, parser, audio, backVars, repo, poller>>

\* What an action of one of the added machines leaves alone.
notBinder == <<capVars, uiVars, parser, audio, backVars, repo, poller>>

notParser == <<capVars, uiVars, binderVars, audio, backVars, repo, poller>>

notAudio == <<capVars, uiVars, binderVars, parser, backVars, repo, poller>>

notBackend == <<capVars, uiVars, binderVars, parser, audio, repo, poller>>

notRepo == <<capVars, uiVars, binderVars, parser, audio, backVars, poller>>

notPoller == <<capVars, uiVars, binderVars, parser, audio, backVars, repo>>

\* What an action of the feature, or of captureFrameAtTime, leaves alone.
notFeature == <<capVars, extVars>>

notCapture == <<uiVars, extVars>>

vars == <<video, call, ui, player, analyses, saves, updates, pendingLoads, store,
          batches, nextReq, toast, clicks, binder, captures, parser, audio,
          db, ingests, areqs, dreqs, repo, poller>>

(***************************************************************************)
(* Data of VideoAnalysisFeature, src/App.tsx:143-168                       *)
(***************************************************************************)

\* Bounds of the model.
MaxViolations == 2   \* violations in one AI response
MaxReq == 2          \* analyses started in one behaviour
MaxBatches == 2      \* thumbnail batches in flight at once
MaxClicks == 6       \* gestures of the operator in one behaviour

Files == {"site.mp4"}

\* A nullable value (T | null) is the empty or the one-element sequence.
None == <<>>
Some(x) == <<x>>
IsSome(o) == Len(o) > 0
The(o) == o[1]
IdOf(o) == IF IsSome(o) THEN The(o).id ELSE 0

\* The useState cells after the first render.
InitUi ==
    [selectedFile |-> None, videoSrc |-> FALSE,
     isUploading |-> FALSE, isAnalyzing |-> FALSE,
     uploadedFileDetails |-> None, analysisResult |-> None,
     rawGeminiResponse |-> None, savedReport |-> None,
     isGeneratingThumbnails |-> FALSE, allSavedReports |-> <<>>,
     selectedReportForViewing |-> None]

\* The component has mounted: the store is empty and the mount effect has
\* called loadAllSavedReports().
InitFeature ==
    /\ ui = InitUi
    /\ player = "none"
    /\ analyses = <<>>
    /\ saves = <<>>
    /\ updates = <<>>
    /\ pendingLoads = 1
    /\ store = <<>>
    /\ batches = <<>>
    /\ nextReq = 1
    /\ toast = "none"
    /\ clicks = 0

\* No batch is being followed on its own.
IdleBinder == [violations |-> <<>>, updated |-> <<>>, i |-> 0, pc |-> "Idle"]

\* No AI text is being parsed on its own.
IdleParser == [raw |-> <<>>, pc |-> "Idle"]

\* No audio stream is being inspected on its own.
IdleAudio == [tool |-> "none", pc |-> "Idle"]

\* The backend is not running.
IdleBackend ==
    /\ db = <<>>
    /\ ingests = <<>>
    /\ areqs = <<>>
    /\ dreqs = <<>>

\* apiService is not being followed on its own.
IdleRepo == [reports |-> <<>>, now |-> 0, adds |-> <<>>, saved |-> <<>>,
             called |-> 0, got |-> None]

\* uploadVideoFile is not being followed on its own.
IdlePoller == [pc |-> "Idle"]

\* The added machines at rest.
IdleExt ==
    /\ binder = IdleBinder
    /\ captures = <<>>
    /\ parser = IdleParser
    /\ audio = IdleAudio
    /\ IdleBackend
    /\ repo = IdleRepo
    /\ poller = IdlePoller

(***************************************************************************)
(* FrameCapture: captureFrameAtTime, src/App.tsx:56-140                    *)
(***************************************************************************)

\* HTMLMediaElement.readyState values the code compares against.
HAVE_NOTHING == 0
HAVE_METADATA == 1

\* The promise is settled in these positions.
Settled == {"ResolvedImage", "ResolvedNull", "Rejected"}

\* The call before captureFrameAtTime has been invoked.
IdleCall ==
    [pc |-> "Idle", wasPaused |-> FALSE,
     onLoadedMetadata |-> FALSE, onSeeked |-> FALSE, onErrorCapture |-> FALSE,
     metaTimeout |-> FALSE, seekTimeoutId |-> FALSE, raf |-> FALSE,
     seeks |-> 0, settles |-> 0, draws |-> 0]

\* resolve(x) / reject(e): only the first settlement of a promise counts.
\* `settles` counts every call of resolve or reject.
Settle(c, how) ==
    [c EXCEPT !.pc = IF c.pc \in Settled THEN c.pc ELSE how,
              !.settles = c.settles + 1]

\* `if (!wasPaused && videoElement.isConnected) videoElement.play()`
ResumeNever(v, wasPaused) == v

ResumePlayback(v, wasPaused) ==
    IF ~wasPaused /\ v.isConnected THEN [v EXCEPT !.paused = FALSE] ELSE v

\* proceedWithCapture(): pause, register listeners, seek, arm the 7 s timer.
ProceedVideo(v) == [v EXCEPT !.paused = TRUE, !.seeking = TRUE]

\* proceedWithCapture() without its 'error' listener.
ProceedWithoutErrorListener(c, v) ==
    [c EXCEPT !.pc = "Seeking", !.wasPaused = v.paused,
              !.onSeeked = TRUE, !.seekTimeoutId = TRUE, !.seeks = c.seeks + 1]

ProceedCall(c, v) ==
    [c EXCEPT !.pc = "Seeking", !.wasPaused = v.paused,
              !.onSeeked = TRUE, !.onErrorCapture = TRUE,
              !.seekTimeoutId = TRUE, !.seeks = c.seeks + 1]

\* A handle on which the source test is always negative.
NoSourceNever(v) == FALSE

\* `initialReadyState === videoElement.HAVE_NOTHING && !videoElement.currentSrc`
NoSourceYet(v) == v.readyState = HAVE_NOTHING /\ ~v.currentSrc

\* The synchronous part of captureFrameAtTime(videoElement, timeSeconds).
CaptureFrameAtTime ==
    /\ UNCHANGED notCapture
    /\ call.pc = "Idle"
    /\ IF video.readyState < HAVE_METADATA
       THEN IF NoSourceYet(video)
            THEN \* listener added and removed again, resolve(null)
                 /\ call' = Settle(call, "ResolvedNull")
                 /\ video' = video
            ELSE /\ call' = [call EXCEPT !.pc = "AwaitingMetadata",
                                         !.onLoadedMetadata = TRUE,
                                         !.metaTimeout = TRUE]
                 /\ video' = video
       ELSE /\ call' = ProceedCall(call, video)
            /\ video' = ProceedVideo(video)

\* The 5 s timer: remove the listener, resolve(null).
MetaTimeoutNoResolve(c) ==
    [c EXCEPT !.onLoadedMetadata = FALSE, !.metaTimeout = FALSE]

\* A 5 s timer that resolves and leaves the listener in place.
MetaTimeoutKeepsListener(c) ==
    Settle([c EXCEPT !.metaTimeout = FALSE], "ResolvedNull")

MetaTimeoutFired(c) ==
    Settle([c EXCEPT !.onLoadedMetadata = FALSE, !.metaTimeout = FALSE], "ResolvedNull")

MetaTimeoutFires ==
    /\ UNCHANGED notCapture
    /\ call.metaTimeout
    /\ call' = MetaTimeoutFired(call)
    /\ video' = video

\* The decoder loads metadata and dispatches 'loadedmetadata'.
FireLoadedMetadata ==
    /\ UNCHANGED notCapture
    /\ video.readyState < HAVE_METADATA
    /\ video.currentSrc
    /\ \E w \in {0, 1}, h \in {0, 1}, d \in {0, 1} :
         LET v1 == [video EXCEPT !.readyState = HAVE_METADATA,
                                 !.duration = Some(d),
                                 !.videoWidth = w, !.videoHeight = h]
         IN IF call.onLoadedMetadata
            THEN LET c1 == [call EXCEPT !.onLoadedMetadata = FALSE,
                                        !.metaTimeout = FALSE]
                 IN /\ call' = ProceedCall(c1, v1)
                    /\ video' = ProceedVideo(v1)
            ELSE /\ call' = call
                 /\ video' = v1

\* An onSeeked that leaves the 7 s timer armed.
OnSeekedKeepsTimer(c) ==
    [c EXCEPT !.pc = "Rendering", !.onSeeked = FALSE,
              !.onErrorCapture = FALSE, !.raf = TRUE]

\* onSeeked: remove both listeners, clear the timer, request a frame.
OnSeeked(c) ==
    [c EXCEPT !.pc = "Rendering", !.onSeeked = FALSE,
              !.onErrorCapture = FALSE, !.seekTimeoutId = FALSE, !.raf = TRUE]

\* The decoder completes the seek and dispatches 'seeked'.
FireSeeked ==
    /\ UNCHANGED notCapture
    /\ video.seeking
    /\ video' = [video EXCEPT !.seeking = FALSE]
    /\ call' = IF call.onSeeked THEN OnSeeked(call) ELSE call

\* The decoder raises a media error and dispatches 'error'.
FireError ==
    /\ UNCHANGED notCapture
    /\ video.currentSrc
    /\ ~video.failed
    /\ LET v1 == [video EXCEPT !.failed = TRUE, !.seeking = FALSE]
       IN IF call.onErrorCapture
          THEN /\ video' = ResumePlayback(v1, call.wasPaused)
               /\ call' = Settle([call EXCEPT !.onSeeked = FALSE,
                                              !.onErrorCapture = FALSE,
                                              !.seekTimeoutId = FALSE], "Rejected")
          ELSE /\ video' = v1
               /\ call' = call

\* The 7 s timer: remove the listeners, resume, reject.
SeekTimeoutFires ==
    /\ UNCHANGED notCapture
    /\ call.seekTimeoutId
    /\ video' = ResumePlayback(video, call.wasPaused)
    /\ call' = Settle([call EXCEPT !.onSeeked = FALSE, !.onErrorCapture = FALSE,
                                   !.seekTimeoutId = FALSE], "Rejected")

\* A frame callback without the test of the canvas size.
RenderAnySize(c, v) ==
    IF v.ctx
    THEN Settle([c EXCEPT !.draws = c.draws + 1], "ResolvedImage")
    ELSE Settle(c, "ResolvedNull")

\* The body of the frame callback: size the canvas, draw, resolve.
RenderFrame(c, v) ==
    IF v.videoWidth = 0 \/ v.videoHeight = 0
    THEN Settle(c, "ResolvedNull")
    ELSE IF v.ctx
         THEN Settle([c EXCEPT !.draws = c.draws + 1], "ResolvedImage")
         ELSE Settle(c, "ResolvedNull")

\* The requestAnimationFrame callback of onSeeked.
AnimationFrame ==
    /\ UNCHANGED notCapture
    /\ call.raf
    /\ video' = ResumePlayback(video, call.wasPaused)
    /\ call' = RenderFrame([call EXCEPT !.raf = FALSE], video)

\* The element leaves the document (the <video> is unmounted).
Disconnect ==
    /\ UNCHANGED notCapture
    /\ video.isConnected
    /\ video' = [video EXCEPT !.isConnected = FALSE]
    /\ call' = call

\* The handles a call can be given; duration and size are unknown (None, 0)
\* until the metadata is loaded.
Handles ==
    {v \in [readyState : {HAVE_NOTHING, HAVE_METADATA},
            currentSrc : BOOLEAN, paused : BOOLEAN,
            isConnected : BOOLEAN, seeking : {FALSE},
            failed : {FALSE}, ctx : BOOLEAN,
            duration : {None, Some(0), Some(1)},
            videoWidth : {0, 1}, videoHeight : {0, 1}] :
       /\ v.readyState >= HAVE_METADATA => IsSome(v.duration)
       /\ v.readyState < HAVE_METADATA =>
              v.duration = None /\ v.videoWidth = 0 /\ v.videoHeight = 0}

\* A handle fed through its src attribute, as the player of App.tsx is:
\* metadata comes only from a selected resource.
InitVideo ==
    video \in {v \in Handles : v.readyState >= HAVE_METADATA => v.currentSrc}

InitCapture ==
    /\ InitVideo
    /\ call = IdleCall
    /\ InitFeature
    /\ IdleExt

NextCapture ==
    \/ CaptureFrameAtTime
    \/ MetaTimeoutFires
    \/ FireLoadedMetadata
    \/ FireSeeked
    \/ FireError
    \/ SeekTimeoutFires
    \/ AnimationFrame
    \/ Disconnect

SpecCapture == InitCapture /\ [][NextCapture]_vars

\* Any handle, one fed by a media provider object (srcObject) included: it
\* has metadata while currentSrc is the empty string.
InitAnyCapture ==
    /\ video \in Handles
    /\ call = IdleCall
    /\ InitFeature
    /\ IdleExt

SpecAnyCapture == InitAnyCapture /\ [][NextCapture]_vars

\* Timers and animation-frame callbacks run; decoder events need not happen.
FairSpecCapture ==
    /\ SpecCapture
    /\ WF_vars(MetaTimeoutFires)
    /\ WF_vars(SeekTimeoutFires)
    /\ WF_vars(AnimationFrame)

(***************************************************************************)
(* VideoAnalysisFeature: derived values of a render, src/App.tsx:552-578   *)
(***************************************************************************)

\* The API key of index.html is configured (otherwise nothing can be analysed).
isApiKeyConfigured == TRUE

canProcess(u) ==
    /\ isApiKeyConfigured
    /\ ~u.isUploading
    /\ ~u.isAnalyzing
    /\ ~u.isGeneratingThumbnails

\* disabled={!canProcess && (!!selectedFile || isUploading || ...)} of the file input
FileInputEnabled(u) ==
    ~(/\ ~canProcess(u)
      /\ \/ IsSome(u.selectedFile)
         \/ u.isUploading
         \/ u.isAnalyzing
         \/ u.isGeneratingThumbnails)

\* displayData = selectedReportForViewing || analysisResult
HasDisplayData(u) == IsSome(u.selectedReportForViewing) \/ IsSome(u.analysisResult)

\* The results panel (comments, Save and Update buttons) is rendered.
ResultsPanelShown(u) ==
    /\ HasDisplayData(u)
    /\ ~u.isUploading
    /\ ~u.isAnalyzing
    /\ ~u.isGeneratingThumbnails \/ IsSome(u.selectedReportForViewing)

\* analysisResult.error && (!violations || violations.length === 0)
CriticalNever(ar) == FALSE

CriticalErrorNoData(ar) == ar.error /\ Len(ar.violations) = 0

\* The "Save Analysis Report" button is rendered and not disabled.
SaveButtonEnabled(u) ==
    /\ ResultsPanelShown(u)
    /\ ~IsSome(u.savedReport)
    /\ ~IsSome(u.selectedReportForViewing)
    /\ IsSome(u.analysisResult)
    /\ ~CriticalErrorNoData(The(u.analysisResult))

\* The "Update Report" button is rendered.
UpdateButtonShown(u) == ResultsPanelShown(u) /\ IsSome(u.savedReport)

(***************************************************************************)
(* resetFormState, src/App.tsx:183-201                                     *)
(***************************************************************************)
resetFormState(u, keepHistorySelection) ==
    [u EXCEPT !.selectedFile = None, !.videoSrc = FALSE,
              !.isUploading = FALSE, !.isAnalyzing = FALSE,
              !.uploadedFileDetails = None, !.analysisResult = None,
              !.rawGeminiResponse = None, !.savedReport = None,
              !.isGeneratingThumbnails = FALSE,
              !.selectedReportForViewing =
                  IF keepHistorySelection THEN @ ELSE None]

\* History: requests in flight are no longer the ones the session waits for.
MarkStale(as) == [k \in DOMAIN as |-> [as[k] EXCEPT !.stale = TRUE]]

\* The operator makes one more gesture (a click or a file choice).
Gesture == clicks < MaxClicks /\ clicks' = clicks + 1

\* History: the form differs from the freshly mounted one.
FormTouched(u) == u # [InitUi EXCEPT !.allSavedReports = u.allSavedReports]

(***************************************************************************)
(* The thumbnail effect, src/App.tsx:321-421                               *)
(***************************************************************************)

\* currentAnalysisResult.violations of the effect
CurrentViolations(u) ==
    IF IsSome(u.selectedReportForViewing)
    THEN The(u.selectedReportForViewing).violations
    ELSE IF IsSome(u.analysisResult) THEN The(u.analysisResult).violations
         ELSE <<>>

\* violations.filter(v => !v.hasOwnProperty('thumbnailDataUrl'))
WithoutThumbnails(vs) == {i \in DOMAIN vs : vs[i].thumb = "absent"}

\* The conditions under which the effect starts a batch (lines 325 and 328).
EffectStarts(u) ==
    /\ Len(CurrentViolations(u)) > 0
    /\ u.videoSrc
    /\ WithoutThumbnails(CurrentViolations(u)) # {}

\* The next index of the list, whether or not it has a thumbnail, or 0.
NextIndex(vs, from) == IF from <= Len(vs) THEN from ELSE 0

\* The first index >= from the loop of generateAllThumbnails captures, or 0.
NextPending(vs, from) ==
    LET rest == {i \in WithoutThumbnails(vs) : i >= from}
    IN IF rest = {} THEN 0 ELSE CHOOSE i \in rest : \A j \in rest : i <= j

\* The closure of one effect run: what generateAllThumbnails reads later.
NewBatch(u) ==
    [updated |-> CurrentViolations(u), i |-> 0,
     sel |-> u.selectedReportForViewing,
     hasAR |-> IsSome(u.analysisResult),
     savedId |-> IdOf(u.savedReport),
     pc |-> "WaitCanPlay", detached |-> FALSE]

\* generateAllThumbnails() up to its first captureFrameAtTime call.
generateAllThumbnails(b) ==
    [b EXCEPT !.pc = "Capturing", !.i = NextPending(b.updated, 1)]

\* The <video> element is unmounted: its batches now hold a detached element.
Detach(bs) == [k \in DOMAIN bs |-> [bs[k] EXCEPT !.detached = TRUE]]

RemoveAt(q, k) == [j \in 1..(Len(q) - 1) |-> IF j < k THEN q[j] ELSE q[j + 1]]

\* The commit of a render: u0 is the state before the handler, u1 the state
\* its setState calls produce, bs the batches it leaves; depsChanged says
\* whether a dependency of the thumbnail effect got a new value, reload
\* whether the element was given a new src.  The effect runs in the commit.
Render(u0, u1, bs, depsChanged, reload) ==
    LET starts == depsChanged /\ EffectStarts(u1)
        p1 == IF ~u1.videoSrc THEN "none"
              ELSE IF ~u0.videoSrc \/ reload THEN "loading" ELSE player
        bs1 == IF u0.videoSrc /\ ~u1.videoSrc THEN Detach(bs) ELSE bs
    IN /\ starts => Len(bs1) < MaxBatches
       /\ ui' = IF starts THEN [u1 EXCEPT !.isGeneratingThumbnails = TRUE] ELSE u1
       /\ player' = p1
       /\ batches' =
            IF starts
            THEN Append(bs1, IF p1 = "ready"
                             THEN generateAllThumbnails(NewBatch(u1))
                             ELSE NewBatch(u1))
            ELSE bs1

(***************************************************************************)
(* apiService, src/services/apiService.ts:21-64                            *)
(***************************************************************************)

RECURSIVE InsertByDateDesc(_, _)
InsertByDateDesc(r, sorted) ==
    IF sorted = <<>> THEN <<r>>
    ELSE IF Head(sorted).analysisDateTime < r.analysisDateTime
         THEN <<r>> \o sorted
         ELSE <<Head(sorted)>> \o InsertByDateDesc(r, Tail(sorted))

RECURSIVE SortByDateDesc(_)
\* [...reports].sort((a, b) => b.analysisDateTime - a.analysisDateTime)
SortByDateDesc(rs) ==
    IF rs = <<>> THEN <<>>
    ELSE InsertByDateDesc(rs[Len(rs)], SortByDateDesc(SubSeq(rs, 1, Len(rs) - 1)))

\* addVideoAnalysisReport, src/services/apiService.ts:23-27:
\* { ...reportData, id: `var-${Date.now()}`, analysisDateTime: now }
NewReport(reportData, now) ==
    [k \in DOMAIN reportData \cup {"id", "analysisDateTime"} |->
        IF k \in {"id", "analysisDateTime"} THEN now ELSE reportData[k]]

\* findIndex(r => r.id === id), 0 when absent
IndexOfId(st, id) ==
    IF \E j \in DOMAIN st : st[j].id = id
    THEN CHOOSE j \in DOMAIN st : st[j].id = id /\ \A l \in 1..(j - 1) : st[l].id # id
    ELSE 0

(***************************************************************************)
(* Event handlers of VideoAnalysisFeature                                  *)
(***************************************************************************)

\* handleFileChange with a video file, src/App.tsx:245-252
HandleFileChange(f) ==
    /\ Gesture
    /\ FileInputEnabled(ui)
    /\ Render(ui, [resetFormState(ui, FALSE) EXCEPT !.selectedFile = Some(f),
                                                    !.videoSrc = TRUE],
              batches, TRUE, TRUE)
    /\ analyses' = MarkStale(analyses)
    /\ UNCHANGED <<saves, updates, pendingLoads, store, nextReq, toast, notFeature>>

\* handleFileChange with a file that is no video, src/App.tsx:253-258
HandleFileChangeInvalid ==
    /\ Gesture
    /\ FileInputEnabled(ui)
    /\ Render(ui, [ui EXCEPT !.selectedFile = None, !.videoSrc = FALSE],
              batches, TRUE, FALSE)
    /\ UNCHANGED <<analyses, saves, updates, pendingLoads, store, nextReq, toast, notFeature>>

\* handleAnalyzeVideo up to its first await, src/App.tsx:262-285
HandleAnalyzeVideo ==
    /\ Gesture
    /\ IsSome(ui.selectedFile)
    /\ canProcess(ui)
    /\ ~IsSome(ui.selectedReportForViewing)
    /\ nextReq <= MaxReq
    /\ Render(ui, [ui EXCEPT !.selectedReportForViewing = None,
                             !.savedReport = None,
                             !.isUploading = TRUE, !.isAnalyzing = FALSE,
                             !.analysisResult = None,
                             !.rawGeminiResponse = None],
              batches, TRUE, FALSE)
    /\ analyses' = Append(MarkStale(analyses),
                          [id |-> nextReq, pc |-> "uploading",
                           file |-> The(ui.selectedFile), stale |-> FALSE])
    /\ nextReq' = nextReq + 1
    /\ UNCHANGED <<saves, updates, pendingLoads, store, toast, notFeature>>

\* uploadVideoFile has returned, src/App.tsx:286-292
UploadReturns(k) ==
    /\ k \in DOMAIN analyses
    /\ analyses[k].pc = "uploading"
    /\ Render(ui, [ui EXCEPT !.uploadedFileDetails =
                                 Some([name |-> analyses[k].file,
                                       videoId |-> analyses[k].id]),
                             !.isUploading = FALSE, !.isAnalyzing = TRUE],
              batches, FALSE, FALSE)
    /\ analyses' = [analyses EXCEPT ![k].pc = "analyzing"]
    /\ UNCHANGED <<saves, updates, pendingLoads, store, nextReq, toast, clicks, notFeature>>

\* uploadVideoFile has thrown: catch and finally, src/App.tsx:310-318
UploadThrows(k) ==
    /\ k \in DOMAIN analyses
    /\ analyses[k].pc = "uploading"
    /\ Render(ui, [ui EXCEPT !.analysisResult =
                                 Some([resp |-> analyses[k].id, error |-> TRUE,
                                       violations |-> <<>>]),
                             !.isUploading = FALSE, !.isAnalyzing = FALSE],
              batches, TRUE, FALSE)
    /\ analyses' = RemoveAt(analyses, k)
    /\ UNCHANGED <<saves, updates, pendingLoads, store, nextReq, toast, clicks, notFeature>>

\* What the text of the AI can be: a result, a result carrying "error", or
\* text JSON.parse rejects; n is the number of violations it lists.
ResponseKinds == {"result", "aiError", "unparsable"}

\* The parse block of handleAnalyzeVideo, src/App.tsx:295-308
ParsedResult(id, kind, n) ==
    [resp |-> id,
     error |-> (kind # "result"),
     violations |-> IF kind = "unparsable" THEN <<>>
                    ELSE [i \in 1..n |-> [of |-> id, thumb |-> "absent"]]]

\* analyzeUploadedVideo has returned: parse, finally, src/App.tsx:292-318
AnalysisReturns(k, kind, n) ==
    /\ k \in DOMAIN analyses
    /\ analyses[k].pc = "analyzing"
    /\ Render(ui, [ui EXCEPT !.rawGeminiResponse = Some(analyses[k].id),
                             !.analysisResult =
                                 Some(ParsedResult(analyses[k].id, kind, n)),
                             !.isUploading = FALSE, !.isAnalyzing = FALSE],
              batches, TRUE, FALSE)
    /\ analyses' = RemoveAt(analyses, k)
    /\ UNCHANGED <<saves, updates, pendingLoads, store, nextReq, toast, clicks, notFeature>>

\* handleSelectReportFromHistory, src/App.tsx:203-242
HandleSelectReportFromHistory(j) ==
    /\ Gesture
    /\ j \in DOMAIN ui.allSavedReports
    /\ LET report == ui.allSavedReports[j]
           sameVideo == /\ IsSome(ui.selectedFile)
                        /\ The(ui.selectedFile) = report.videoFileName
                        /\ IdOf([x \in DOMAIN ui.uploadedFileDetails |->
                                   [id |-> ui.uploadedFileDetails[x].videoId]])
                             = report.videoId
           u1 == [resetFormState(ui, TRUE) EXCEPT
                    !.selectedReportForViewing = Some(report),
                    !.analysisResult = Some([resp |-> report.resp,
                                             error |-> FALSE,
                                             violations |-> report.violations]),
                    !.rawGeminiResponse = Some(report.resp),
                    !.savedReport = Some(report),
                    !.videoSrc = sameVideo /\ ~ui.videoSrc /\ IsSome(ui.selectedFile)]
       IN Render(ui, u1, batches, TRUE, FALSE)
    /\ analyses' = MarkStale(analyses)
    /\ UNCHANGED <<saves, updates, pendingLoads, store, nextReq, toast, notFeature>>

\* The "Clear Selection & Analyze New" button, src/App.tsx:652-659
ClearSelection ==
    /\ Gesture
    /\ IsSome(ui.selectedReportForViewing)
    /\ Render(ui, resetFormState(ui, FALSE), batches, TRUE, FALSE)
    /\ analyses' = MarkStale(analyses)
    /\ UNCHANGED <<saves, updates, pendingLoads, store, nextReq, toast, notFeature>>

\* Which way handleSaveReport leaves, src/App.tsx:424-459
SaveOutcome(u) ==
    IF /\ ~IsSome(u.selectedReportForViewing)
       /\ IsSome(u.analysisResult)
       /\ CriticalErrorNoData(The(u.analysisResult))
    THEN "critical"
    ELSE IF /\ ~IsSome(u.selectedReportForViewing)
            /\ \/ ~IsSome(u.analysisResult)
               \/ ~IsSome(u.selectedFile)
               \/ ~IsSome(u.uploadedFileDetails)
    THEN "nodetails"
    ELSE IF IsSome(u.selectedReportForViewing)
    THEN IF IdOf(u.savedReport) # IdOf(u.selectedReportForViewing)
         THEN "inconsistent" ELSE "update"
    ELSE "add"

\* reportToSave of handleSaveReport, src/App.tsx:461-476
ReportToSave(u) ==
    [videoId |-> The(u.uploadedFileDetails).videoId,
     videoFileName |-> The(u.selectedFile),
     resp |-> The(u.analysisResult).resp,
     violations |-> The(u.analysisResult).violations]

\* updatedData and the closure of handleUpdateReport, src/App.tsx:496-503
UpdateCall(u) ==
    [id |-> IdOf(u.savedReport),
     violations |-> IF IdOf(u.selectedReportForViewing) = IdOf(u.savedReport)
                    THEN The(u.selectedReportForViewing).violations
                    ELSE The(u.savedReport).violations,
     selId |-> IdOf(u.selectedReportForViewing)]

\* handleSaveReport up to its await, src/App.tsx:424-479
HandleSaveReport ==
    /\ Gesture
    /\ SaveButtonEnabled(ui)
    /\ LET out == SaveOutcome(ui)
       IN /\ toast' = IF out \in {"critical", "nodetails", "inconsistent"}
                      THEN out ELSE toast
          /\ saves' = IF out = "add" THEN Append(saves, ReportToSave(ui)) ELSE saves
          /\ updates' = IF out = "update" THEN Append(updates, UpdateCall(ui))
                        ELSE updates
    /\ UNCHANGED <<ui, player, analyses, pendingLoads, store, batches, nextReq, notFeature>>

\* addVideoAnalysisReport has returned, src/App.tsx:479-484 and
\* src/services/apiService.ts:21-30; here every add reads a later
\* millisecond of the clock than the one before
SaveReturns(k) ==
    /\ k \in DOMAIN saves
    /\ LET newSavedReport == NewReport(saves[k], Len(store) + 1)
       IN /\ store' = Append(store, newSavedReport)
          /\ Render(ui, [ui EXCEPT !.savedReport = Some(newSavedReport)],
                    batches, TRUE, FALSE)
    /\ saves' = RemoveAt(saves, k)
    /\ pendingLoads' = pendingLoads + 1
    /\ UNCHANGED <<analyses, updates, nextReq, toast, clicks, notFeature>>

\* handleUpdateReport up to its await, src/App.tsx:490-503
HandleUpdateReport ==
    /\ Gesture
    /\ UpdateButtonShown(ui)
    /\ updates' = Append(updates, UpdateCall(ui))
    /\ UNCHANGED <<ui, player, analyses, saves, pendingLoads, store, batches,
                   nextReq, toast, notFeature>>

\* updateVideoAnalysisReport has returned, src/App.tsx:503-509 and
\* src/services/apiService.ts:48-64
UpdateReturns(k) ==
    /\ k \in DOMAIN updates
    /\ LET idx == IndexOfId(store, updates[k].id)
       IN IF idx = 0
          THEN \* "Report not found for update.": the catch only toasts
               /\ UNCHANGED <<ui, player, batches, store, pendingLoads>>
          ELSE LET updated == [store[idx] EXCEPT
                                 !.violations = updates[k].violations]
               IN /\ store' = [store EXCEPT ![idx] = updated]
                  /\ Render(ui,
                            [ui EXCEPT
                               !.savedReport = Some(updated),
                               !.selectedReportForViewing =
                                   IF updates[k].selId = updated.id
                                   THEN Some(updated) ELSE @],
                            batches, TRUE, FALSE)
                  /\ pendingLoads' = pendingLoads + 1
    /\ updates' = RemoveAt(updates, k)
    /\ UNCHANGED <<analyses, saves, nextReq, toast, clicks, notFeature>>

\* getAllVideoAnalysisReports has returned, src/App.tsx:170-177 and
\* src/services/apiService.ts:37-41
LoadReturns ==
    /\ pendingLoads > 0
    /\ pendingLoads' = pendingLoads - 1
    /\ ui' = [ui EXCEPT !.allSavedReports = SortByDateDesc(store)]
    /\ UNCHANGED <<player, analyses, saves, updates, store, batches, nextReq,
                   toast, clicks, notFeature>>

(***************************************************************************)
(* The main player and the thumbnail batches, src/App.tsx:332-418          *)
(***************************************************************************)

Waiting(b) == b.pc = "WaitCanPlay" /\ ~b.detached

\* The mounted player has loaded its data: 'loadeddata' reaches onCanPlay.
PlayerLoaded ==
    /\ player = "loading"
    /\ player' = "ready"
    /\ batches' = [k \in DOMAIN batches |->
                     IF Waiting(batches[k])
                     THEN generateAllThumbnails(batches[k]) ELSE batches[k]]
    /\ UNCHANGED <<ui, analyses, saves, updates, pendingLoads, store, nextReq,
                   toast, clicks, notFeature>>

\* The mounted player fails to load: 'error' reaches onCanPlayError.
PlayerError ==
    /\ player = "loading"
    /\ player' = "failed"
    /\ batches' = SelectSeq(batches, LAMBDA b : ~Waiting(b))
    /\ ui' = IF \E k \in DOMAIN batches : Waiting(batches[k])
             THEN [ui EXCEPT !.isGeneratingThumbnails = FALSE] ELSE ui
    /\ UNCHANGED <<analyses, saves, updates, pendingLoads, store, nextReq,
                   toast, clicks, notFeature>>

\* An unmounted element still loads or fails: its listeners still run.
DetachedPlayerEvent(k, loaded) ==
    /\ k \in DOMAIN batches
    /\ batches[k].pc = "WaitCanPlay"
    /\ batches[k].detached
    /\ IF loaded
       THEN /\ batches' = [batches EXCEPT ![k] = generateAllThumbnails(@)]
            /\ ui' = ui
       ELSE /\ batches' = RemoveAt(batches, k)
            /\ ui' = [ui EXCEPT !.isGeneratingThumbnails = FALSE]
    /\ UNCHANGED <<player, analyses, saves, updates, pendingLoads, store, nextReq,
                   toast, clicks, notFeature>>

\* What the end of generateAllThumbnails writes, src/App.tsx:376-390
WriteBack(u, b, updatedViolations) ==
    LET u1 ==
          IF IsSome(b.sel)
          THEN LET h == [The(b.sel) EXCEPT !.violations = updatedViolations]
               IN [u EXCEPT
                     !.selectedReportForViewing = Some(h),
                     !.allSavedReports =
                         [x \in DOMAIN @ |-> IF @[x].id = h.id THEN h ELSE @[x]],
                     !.savedReport = IF b.savedId = h.id THEN Some(h) ELSE @]
          ELSE IF b.hasAR
          THEN [u EXCEPT
                  !.analysisResult =
                      IF IsSome(@)
                      THEN Some([The(@) EXCEPT !.violations = updatedViolations])
                      ELSE None]
          ELSE u
    IN [u1 EXCEPT !.isGeneratingThumbnails = FALSE]

\* updatedViolations[i] after the capture of violation i has settled: the
\* image, or null when the call returned null or rejected, src/App.tsx:365-372
Captured(vs, i, outcome) ==
    [vs EXCEPT ![i].thumb = IF outcome = "image" THEN "image" ELSE "null"]

\* The captureFrameAtTime call of batch k settles (image, null or rejection);
\* the loop goes on to the next violation without thumbnail, or ends and
\* writes its violations back, src/App.tsx:362-390
CaptureSettles(k, outcome) ==
    /\ k \in DOMAIN batches
    /\ batches[k].pc = "Capturing"
    /\ LET b == batches[k]
           upd == Captured(b.updated, b.i, outcome)
           nxt == NextPending(upd, b.i + 1)
       IN IF nxt # 0
          THEN /\ batches' = [batches EXCEPT ![k] = [b EXCEPT !.updated = upd,
                                                              !.i = nxt]]
               /\ UNCHANGED <<ui, player>>
          ELSE Render(ui, WriteBack(ui, b, upd), RemoveAt(batches, k), TRUE, FALSE)
    /\ UNCHANGED <<analyses, saves, updates, pendingLoads, store, nextReq, toast, clicks, notFeature>>

CaptureOutcomes == {"image", "null", "rejected"}

\* The capture variables do not move in the feature's state machine.
QuietVideo ==
    [readyState |-> HAVE_NOTHING, currentSrc |-> FALSE, paused |-> TRUE,
     isConnected |-> FALSE, seeking |-> FALSE, failed |-> FALSE, ctx |-> FALSE,
     duration |-> None, videoWidth |-> 0, videoHeight |-> 0]

Init ==
    /\ InitFeature
    /\ video = QuietVideo
    /\ call = IdleCall
    /\ IdleExt

Next ==
    \/ \E f \in Files : HandleFileChange(f)
    \/ HandleFileChangeInvalid
    \/ HandleAnalyzeVideo
    \/ \E k \in DOMAIN analyses : UploadReturns(k)
    \/ \E k \in DOMAIN analyses : UploadThrows(k)
    \/ \E k \in DOMAIN analyses, kind \in ResponseKinds, n \in 0..MaxViolations :
           AnalysisReturns(k, kind, n)
    \/ \E j \in DOMAIN ui.allSavedReports : HandleSelectReportFromHistory(j)
    \/ ClearSelection
    \/ HandleSaveReport
    \/ \E k \in DOMAIN saves : SaveReturns(k)
    \/ HandleUpdateReport
    \/ \E k \in DOMAIN updates : UpdateReturns(k)
    \/ LoadReturns
    \/ PlayerLoaded
    \/ PlayerError
    \/ \E k \in DOMAIN batches, loaded \in BOOLEAN : DetachedPlayerEvent(k, loaded)
    \/ \E k \in DOMAIN batches, outcome \in CaptureOutcomes : CaptureSettles(k, outcome)

Spec == Init /\ [][Next]_vars

\* Every captureFrameAtTime call settles (its timers run), so the loop of a
\* batch goes on; the player need not fire any event and the operator need
\* not make any gesture.
FairSpec ==
    /\ Spec
    /\ WF_vars(\E k \in DOMAIN batches, outcome \in CaptureOutcomes :
                  CaptureSettles(k, outcome))

\* The first file choice of a session: there is no form to reset yet.
FirstFileChange(f) == ~FormTouched(ui) /\ HandleFileChange(f)

\* The behaviours in which the operator neither resets the form (a new file
\* over a used form, "Clear Selection") nor loads a report from history.
NextNoReset ==
    \/ \E f \in Files : FirstFileChange(f)
    \/ HandleFileChangeInvalid
    \/ HandleAnalyzeVideo
    \/ \E k \in DOMAIN analyses : UploadReturns(k)
    \/ \E k \in DOMAIN analyses : UploadThrows(k)
    \/ \E k \in DOMAIN analyses, kind \in ResponseKinds, n \in 0..MaxViolations :
           AnalysisReturns(k, kind, n)
    \/ HandleSaveReport
    \/ \E k \in DOMAIN saves : SaveReturns(k)
    \/ HandleUpdateReport
    \/ \E k \in DOMAIN updates : UpdateReturns(k)
    \/ LoadReturns
    \/ PlayerLoaded
    \/ PlayerError
    \/ \E k \in DOMAIN batches, outcome \in CaptureOutcomes : CaptureSettles(k, outcome)

SpecNoReset == Init /\ [][NextNoReset]_vars

(***************************************************************************)
(* One thumbnail batch over a ready video, src/App.tsx:359-374             *)
(***************************************************************************)

\* violation.startTimeSeconds of the violations the batch is given.
StartTimes == {10, 32}

\* The violation lists the effect hands to a batch: at least one violation
\* has no thumbnailDataUrl (src/App.tsx:328).
BinderInputs ==
    {vs \in UNION {[1..n -> [of : {1}, thumb : {"absent", "image", "null"},
                             start : StartTimes]] : n \in 1..MaxViolations} :
        WithoutThumbnails(vs) # {}}

\* captureFrameAtTime(currentVideoPlayer, violation.startTimeSeconds)
CaptureCall(vs, i) == [i |-> i, t |-> vs[i].start, outcome |-> "pending"]

\* generateAllThumbnails() runs on a ready player up to its first capture.
BinderStart ==
    /\ binder.pc = "Idle"
    /\ LET b == generateAllThumbnails([binder EXCEPT !.updated = binder.violations])
       IN /\ binder' = b
          /\ captures' = Append(captures, CaptureCall(b.updated, b.i))
    /\ UNCHANGED notBinder

\* The capture in flight settles; the loop goes on to the next violation
\* without thumbnail or ends.
BinderSettles(outcome) ==
    /\ binder.pc = "Capturing"
    /\ LET upd == Captured(binder.updated, binder.i, outcome)
           nxt == NextPending(upd, binder.i + 1)
           done == [captures EXCEPT ![Len(captures)].outcome = outcome]
       IN IF nxt # 0
          THEN /\ binder' = [binder EXCEPT !.updated = upd, !.i = nxt]
               /\ captures' = Append(done, CaptureCall(upd, nxt))
          ELSE /\ binder' = [binder EXCEPT !.updated = upd, !.i = 0, !.pc = "Done"]
               /\ captures' = done
    /\ UNCHANGED notBinder

InitBinder ==
    /\ InitFeature
    /\ video = QuietVideo
    /\ call = IdleCall
    /\ binder \in {[IdleBinder EXCEPT !.violations = vs] : vs \in BinderInputs}
    /\ captures = <<>>
    /\ parser = IdleParser
    /\ audio = IdleAudio
    /\ IdleBackend
    /\ repo = IdleRepo
    /\ poller = IdlePoller

NextBinder ==
    \/ BinderStart
    \/ \E outcome \in CaptureOutcomes : BinderSettles(outcome)

SpecBinder == InitBinder /\ [][NextBinder]_vars

(***************************************************************************)
(* Claims about captureFrameAtTime                                         *)
(***************************************************************************)

\* C1: every call of captureFrameAtTime that has been made eventually
\* settles (image, null or rejection), whether or not the decoder ever
\* fires 'loadedmetadata', 'seeked' or 'error', given only that the timers
\* and the animation-frame callback run.
C1_EverySettles == (call.pc # "Idle") ~> (call.pc \in Settled)

\* C1 witness: a call that waited for metadata, saw no decoder event at all
\* and was settled by the 5 s timer.
C1_Witness ==
    /\ call.pc = "ResolvedNull"
    /\ call.seeks = 0
    /\ video.readyState < HAVE_METADATA
    /\ video.currentSrc
    /\ ~video.failed

\* The step in which a call that has issued its seek leaves through one of
\* its exit paths (image, null, media error, seek timeout).
ExitAfterSeek ==
    /\ call.pc \in {"Seeking", "Rendering"}
    /\ call'.pc \in Settled

\* C4 (as claimed): a video that was playing when the seek started is never
\* left paused once the call has settled.
C4_AlwaysResumed ==
    (call.pc \in Settled /\ call.seeks > 0 /\ ~call.wasPaused) => ~video.paused

\* C4 (amended): a video that was playing when the seek started is paused
\* for the seek, and on every exit path play() is called if the element is
\* still connected to the document at that moment; an element that has left
\* the document is left paused.
C4_ResumedWhenConnected ==
    [][/\ (call.pc \notin {"Seeking", "Rendering"} /\ call'.pc = "Seeking"
             /\ ~video.paused)
          => (video'.paused /\ ~call'.wasPaused)
       /\ (call.pc = "Seeking" /\ call'.pc = "Rendering" /\ ~call.wasPaused)
          => video'.paused
       /\ (ExitAfterSeek /\ ~call.wasPaused /\ video.isConnected)
          => ~video'.paused
       /\ (ExitAfterSeek /\ ~call.wasPaused /\ ~video.isConnected)
          => video'.paused = video.paused]_vars

\* C4 witness: the seek of a playing, connected video timed out or failed,
\* and the video is playing again.
C4_Witness ==
    /\ call.pc = "Rejected"
    /\ ~call.wasPaused
    /\ video.isConnected
    /\ ~video.paused

(***************************************************************************)
(* Claims about the thumbnail effect                                       *)
(***************************************************************************)

\* The batches whose captureFrameAtTime call is in flight on the mounted player.
CapturingOnPlayer ==
    {k \in DOMAIN batches : batches[k].pc = "Capturing" /\ ~batches[k].detached}

Capturing(bs, r, i) ==
    Cardinality({k \in DOMAIN bs : /\ bs[k].pc = "Capturing"
                                    /\ bs[k].i = i
                                    /\ bs[k].updated[i].of = r})

AllOf(vs, r) == \A i \in DOMAIN vs : vs[i].of = r

\* C5: a finished batch never leaves the analysis result, the viewed report
\* or the active report holding the violations of another object: each of
\* them carries only violations of its own analysis.
C5_WritesOnlyLiveObject ==
    /\ IsSome(ui.analysisResult)
          => AllOf(The(ui.analysisResult).violations, The(ui.analysisResult).resp)
    /\ IsSome(ui.selectedReportForViewing)
          => AllOf(The(ui.selectedReportForViewing).violations,
                   The(ui.selectedReportForViewing).resp)
    /\ IsSome(ui.savedReport)
          => AllOf(The(ui.savedReport).violations, The(ui.savedReport).resp)

(***************************************************************************)
(* Claims about handleAnalyzeVideo and the history selection               *)
(***************************************************************************)

\* The step delivers the response of a request the session no longer waits for.
StaleResponse ==
    \E k \in DOMAIN analyses :
        /\ analyses[k].stale
        /\ \A j \in DOMAIN analyses' :
               analyses'[j].id = analyses[k].id => analyses'[j].pc # analyses[k].pc

\* C6: the response of an upload or analysis request that is no longer the
\* one being waited for changes neither analysisResult, rawGeminiResponse,
\* uploadedFileDetails nor the isUploading / isAnalyzing flags.
C6_StaleResponseIgnored ==
    [][StaleResponse =>
          /\ ui'.analysisResult = ui.analysisResult
          /\ ui'.rawGeminiResponse = ui.rawGeminiResponse
          /\ ui'.uploadedFileDetails = ui.uploadedFileDetails
          /\ ui'.isUploading = ui.isUploading
          /\ ui'.isAnalyzing = ui.isAnalyzing]_vars

\* C7: while a historical report is viewed no upload or analysis is in
\* progress and no upload details are held.
C7_HistoryExcludesAnalysis ==
    IsSome(ui.selectedReportForViewing)
        => /\ ~ui.isUploading
           /\ ~ui.isAnalyzing
           /\ ~IsSome(ui.uploadedFileDetails)

(***************************************************************************)
(* Claims about handleSaveReport and handleUpdateReport                    *)
(***************************************************************************)

\* C8: an update issued by the UI carries the id of the active report, and
\* while the active report differs from the viewed historical report no
\* update is issued.
C8_NoUpdateOnMismatch ==
    [][Len(updates') > Len(updates)
          => /\ updates'[Len(updates')].id = IdOf(ui.savedReport)
             /\ IsSome(ui.selectedReportForViewing)
                   => IdOf(ui.savedReport) = IdOf(ui.selectedReportForViewing)]_vars

\* C9: for one analysis result at most one report reaches the store.
C9_CreatedOnce ==
    \A a, b \in DOMAIN store : store[a].resp = store[b].resp => a = b

\* The step is a click on "Save Analysis Report" that issues addVideoAnalysisReport.
SaveIssued == Len(saves') > Len(saves)

\* C10 (as claimed): a click on Save issues the add call exactly when the
\* analysis result does not have error set together with zero violations.
C10_SavedUnlessCritical ==
    [][HandleSaveReport =>
          (SaveIssued <=> ~(/\ The(ui.analysisResult).error
                            /\ Len(The(ui.analysisResult).violations) = 0))]_vars

\* C10 (amended): no add call is ever issued for a result with error set
\* and zero violations; a click on Save for any other result issues the add
\* call exactly when the selected file and the upload details are still
\* held, and otherwise only raises the "no details" toast.
C10_SaveGate ==
    [][/\ SaveIssued
          => /\ IsSome(ui.analysisResult)
             /\ ~(/\ The(ui.analysisResult).error
                   /\ Len(The(ui.analysisResult).violations) = 0)
             /\ saves'[Len(saves')].resp = The(ui.analysisResult).resp
       /\ HandleSaveReport
          => /\ SaveIssued <=> (/\ IsSome(ui.selectedFile)
                                 /\ IsSome(ui.uploadedFileDetails))
             /\ ~SaveIssued => toast' = "nodetails" /\ store' = store]_vars

\* C10 witness: the add call is in flight for the current analysis result,
\* which has error set and one violation or more.
C10_Witness ==
    /\ IsSome(ui.analysisResult)
    /\ The(ui.analysisResult).error
    /\ Len(The(ui.analysisResult).violations) > 0
    /\ \E k \in DOMAIN saves : saves[k].resp = The(ui.analysisResult).resp

(***************************************************************************)
(* Claims about one thumbnail batch                                        *)
(***************************************************************************)

\* The captures the batch made for violation i.
CapturesOf(i) == {k \in DOMAIN captures : captures[k].i = i}

\* C11: when a batch over a ready video has finished, every violation has a
\* thumbnail status; a violation that was pending got exactly one capture,
\* at its startTimeSeconds, and holds the image if the capture returned one
\* and null if it returned null or rejected; a violation that already had a
\* status got no capture and is unchanged; the captures were made in list
\* order.
C11_BatchResolvesAll ==
    binder.pc = "Done" =>
        /\ Len(binder.updated) = Len(binder.violations)
        /\ \A i \in DOMAIN binder.violations :
              IF binder.violations[i].thumb = "absent"
              THEN /\ Cardinality(CapturesOf(i)) = 1
                   /\ \A k \in CapturesOf(i) :
                         /\ captures[k].t = binder.violations[i].start
                         /\ binder.updated[i] =
                               [binder.violations[i] EXCEPT !.thumb =
                                  IF captures[k].outcome = "image"
                                  THEN "image" ELSE "null"]
              ELSE /\ CapturesOf(i) = {}
                   /\ binder.updated[i] = binder.violations[i]
        /\ \A k, l \in DOMAIN captures : k < l => captures[k].i < captures[l].i

\* C11 witness: a finished batch over two pending violations, one capture
\* of which returned an image and the other rejected.
C11_Witness ==
    /\ binder.pc = "Done"
    /\ Len(captures) = 2
    /\ captures[1].outcome = "rejected"
    /\ captures[2].outcome = "image"
    /\ binder.updated[1].thumb = "null"
    /\ binder.updated[2].thumb = "image"

(***************************************************************************)
(* The parse block of handleAnalyzeVideo, src/App.tsx:292-308              *)
(*                                                                         *)
(* An AI text is a sequence of "key": value members between braces, cut    *)
(* short or not, or the text null, or text that is no JSON at all.         *)
(* JSON.parse turns a whole object text into an object in which the last   *)
(* member of a key wins, turns null into null and throws on the rest.      *)
(***************************************************************************)

MaxMembers == 4   \* members of one AI text

\* The text the model itself produced, as geminiService.ts:183 wraps it
ModelText == [members |-> <<>>, form |-> "garbage"]

AViolation == [description |-> "no helmet", startTimeSeconds |-> 10]

\* The members an AI text can hold, src/App.tsx:46-53 (ParsedAnalysisResult)
Members ==
    {<<"summary", "ok">>, <<"safetyScore", 90>>,
     <<"violations", <<>>>>, <<"violations", <<AViolation>>>>,
     <<"positiveObservations", <<"ppe worn">>>>,
     <<"error", "model failed">>, <<"error", "">>,
     <<"rawResponse", ModelText>>}

Texts ==
    {[members |-> ms, form |-> f] :
        ms \in UNION {[1..n -> Members] : n \in 0..MaxMembers},
        f \in {"object", "truncated"}}
    \cup {[members |-> <<>>, form |-> f] : f \in {"null", "garbage"}}

\* JSON.parse(text) throws a SyntaxError
SyntaxError(text) == text.form \in {"truncated", "garbage"}

\* The object JSON.parse(text) returns for an object text
JSONparse(text) ==
    LET ms == text.members
        keys == {ms[i][1] : i \in DOMAIN ms}
        last(k) == CHOOSE i \in DOMAIN ms :
                      /\ ms[i][1] = k
                      /\ \A j \in DOMAIN ms : ms[j][1] = k => j <= i
    IN [k \in keys |-> ms[last(k)][2]]

\* if (parsed.error): a property that is there and is not the empty string
Truthy(obj, k) == k \in DOMAIN obj /\ obj[k] # ""

\* { violations: [], ...parsed }, src/App.tsx:299
WithDefaultViolations(parsed) ==
    [k \in DOMAIN parsed \cup {"violations"} |->
        IF k \in DOMAIN parsed THEN parsed[k] ELSE <<>>]

\* A catch block that keeps nothing of the text.
CaughtBare(raw) ==
    [error |-> "Failed to parse analysis result.", violations |-> <<>>]

\* The catch block, src/App.tsx:304-308
Caught(raw) ==
    [error |-> "Failed to parse analysis result.", violations |-> <<>>,
     rawResponse |-> raw]

\* What the try block hands to setAnalysisResult; reading parsed.error of
\* null is a TypeError, which the same catch block receives.
ParseBlock(raw) ==
    IF SyntaxError(raw) \/ raw.form = "null"
    THEN Caught(raw)
    ELSE LET parsed == JSONparse(raw)
         IN IF Truthy(parsed, "error")
            THEN WithDefaultViolations(parsed)
            ELSE parsed

\* rawResponseToDisplay of a new analysis, src/App.tsx:582-590; a raw
\* response that is there is a text, and every text is truthy here.
rawResponseToDisplay(result) ==
    IF "rawResponse" \in DOMAIN result THEN Some(result.rawResponse) ELSE None

\* analyzeUploadedVideo has returned raw: setRawGeminiResponse, then the
\* parse block.  Nothing after JSON.parse can throw out of the try/catch, so
\* the handler goes on to its finally block.
ParseResponse ==
    /\ parser.pc = "Analyzing"
    /\ parser' = [parser EXCEPT !.pc = "Parsed",
                                !.rawGeminiResponse = Some(parser.raw),
                                !.analysisResult = Some(ParseBlock(parser.raw))]
    /\ UNCHANGED notParser

InitParser ==
    /\ InitFeature
    /\ video = QuietVideo
    /\ call = IdleCall
    /\ binder = IdleBinder
    /\ captures = <<>>
    /\ audio = IdleAudio
    /\ IdleBackend
    /\ repo = IdleRepo
    /\ poller = IdlePoller
    /\ parser \in {[raw |-> raw, pc |-> "Analyzing", rawGeminiResponse |-> None,
                    analysisResult |-> None] : raw \in Texts}

NextParser == ParseResponse

SpecParser == InitParser /\ [][NextParser]_vars

(***************************************************************************)
(* Claims about the parse block                                            *)
(***************************************************************************)

\* The text is one JSON.parse cannot decode.
Undecodable(raw) == SyntaxError(raw)

\* C12: parsing AI text that cannot be decoded does not throw to the caller:
\* the parse block completes and the analysis result it sets has error set,
\* an empty violations list and the raw text as its rawResponse.
C12_UndecodableRecovered ==
    Undecodable(parser.raw) /\ parser.pc = "Parsed" =>
        LET r == The(parser.analysisResult)
        IN /\ Truthy(r, "error")
           /\ "violations" \in DOMAIN r /\ r.violations = <<>>
           /\ "rawResponse" \in DOMAIN r /\ r.rawResponse = parser.raw

\* C12 witness: a text cut short after some members has been parsed.
C12_Witness ==
    /\ parser.pc = "Parsed"
    /\ parser.raw.form = "truncated"
    /\ Len(parser.raw.members) = 2
    /\ The(parser.analysisResult).rawResponse = parser.raw

\* The fields of the result the AI supplies.
ReportFields == {"summary", "safetyScore", "violations", "positiveObservations"}

\* C13: when the AI text decodes to an object, the analysis result has the
\* decoded summary, safetyScore, violations and positiveObservations
\* unchanged, has no error when the decoded object has none, and has the
\* original AI text as its rawResponse.
C13_DecodedKeepsRawText ==
    parser.raw.form = "object" /\ parser.pc = "Parsed" =>
        LET r == The(parser.analysisResult)
            parsed == JSONparse(parser.raw)
        IN /\ \A k \in ReportFields \cap DOMAIN parsed :
                k \in DOMAIN r /\ r[k] = parsed[k]
           /\ "error" \notin DOMAIN parsed => "error" \notin DOMAIN r
           /\ rawResponseToDisplay(r) = Some(parser.raw)

(***************************************************************************)
(* The audio inspection: detectAudioIssues of the backend,                 *)
(* src/backend/src/services/videoProcessor.js:68-87, and needs_audio_fix   *)
(* of the command-line tool, src/scripts/preprocess-video.sh:68-82         *)
(***************************************************************************)

MinSampleRate == 8000

\* JavaScript values of the fields of an ffprobe audio stream
Undefined == [t |-> "undefined"]
Num(n) == [t |-> "number", n |-> n]
Str(chars) == [t |-> "string", s |-> chars]

\* !value
Falsy(v) ==
    \/ v.t = "undefined"
    \/ v.t = "number" /\ v.n = 0
    \/ v.t = "string" /\ v.s = <<>>

DigitValue ==
    [c \in {"0", "1", "2", "3", "4", "5", "6", "7", "8", "9"} |->
        CASE c = "0" -> 0 [] c = "1" -> 1 [] c = "2" -> 2 [] c = "3" -> 3
          [] c = "4" -> 4 [] c = "5" -> 5 [] c = "6" -> 6 [] c = "7" -> 7
          [] c = "8" -> 8 [] c = "9" -> 9]

RECURSIVE ParseDigits(_, _, _)
\* The integer the leading digits of chars spell, or None (NaN) without one
ParseDigits(chars, acc, seen) ==
    IF chars = <<>> \/ Head(chars) \notin DOMAIN DigitValue
    THEN IF seen THEN Some(acc) ELSE None
    ELSE ParseDigits(Tail(chars), acc * 10 + DigitValue[Head(chars)], TRUE)

\* parseInt(value) of a number or a string
parseInt(v) == IF v.t = "number" THEN Some(v.n) ELSE ParseDigits(v.s, 0, FALSE)

\* The audio streams fluent-ffmpeg's ffprobe can hand to detectAudioIssues
AudioStreams ==
    [channels : {Undefined, Num(0), Num(1), Num(2)},
     sample_rate : {Undefined, Num(0), Num(1000), Num(7999), Num(8000), Num(44100),
                    Str(<<"0">>), Str(<<"1", "0", "0", "0">>),
                    Str(<<"8", "0", "0", "0">>), Str(<<"4", "4", "1", "0", "0">>),
                    Str(<<"N", "/", "A">>)},
     codec_name : {Undefined, Str(<<>>), Str(<<"a", "a", "c">>)}]

\* audioStream.sample_rate && parseInt(audioStream.sample_rate) < 8000
LowSampleRate(audioStream) ==
    LET rate == parseInt(audioStream.sample_rate)
    IN ~Falsy(audioStream.sample_rate) /\ IsSome(rate) /\ The(rate) < MinSampleRate

\* VideoProcessor.detectAudioIssues: the issues found, or None for null
detectAudioIssues(audioStream) ==
    LET i1 == IF Falsy(audioStream.channels) \/ audioStream.channels = Num(0)
              THEN <<"Invalid channel count">> ELSE <<>>
        i2 == IF LowSampleRate(audioStream)
              THEN <<"Low sample rate">> ELSE <<>>
        i3 == IF Falsy(audioStream.codec_name)
              THEN <<"Missing audio codec">> ELSE <<>>
        issues == i1 \o i2 \o i3
    IN IF Len(issues) > 0 THEN Some(issues) ELSE None

\* The output of ffprobe -of json the tool greps: the members of the first
\* audio stream that are there, and whether white space follows the colons.
AudioInfos ==
    [channels : {None, Some(0), Some(1), Some(2)},
     sample_rate : {None, Some(0), Some(1000), Some(7999), Some(8000), Some(44100)},
     codec_name : {None, Some(""), Some("aac")},
     spaced : BOOLEAN]

\* grep -o '"channels":[0-9]*' | cut -d':' -f2: the digits right after the
\* colon, the empty string (None) when there are none
GrepNumber(info, member) ==
    IF info.spaced THEN None ELSE info[member]

\* grep -o '"name":"[^"]*"' | cut -d'"' -f4: the text between the quotes
\* right after the colon, the empty string when the pattern does not match
GrepString(info, member) ==
    IF info.spaced \/ info[member] = None THEN "" ELSE The(info[member])

\* [[ "$value" -lt 8000 ]]: the empty string counts as 0
Arith(value) == IF IsSome(value) THEN The(value) ELSE 0

\* needs_audio_fix: TRUE for exit status 0, "needs fix"
needs_audio_fix(audio_info) ==
    LET channels == GrepNumber(audio_info, "channels")
        sample_rate == GrepNumber(audio_info, "sample_rate")
        codec_name == GrepString(audio_info, "codec_name")
    IN \/ channels = Some(0)
       \/ Arith(sample_rate) < MinSampleRate
       \/ codec_name = ""

\* The backend inspects the audio stream of an upload.
DetectAudioIssues ==
    /\ audio.pc = "Probed"
    /\ audio.tool = "backend"
    /\ audio' = [audio EXCEPT !.pc = "Inspected",
                              !.flagged = IsSome(detectAudioIssues(audio.descriptor))]
    /\ UNCHANGED notAudio

\* The command-line tool inspects the audio stream of a file.
NeedsAudioFix ==
    /\ audio.pc = "Probed"
    /\ audio.tool = "cli"
    /\ audio' = [audio EXCEPT !.pc = "Inspected",
                              !.flagged = needs_audio_fix(audio.descriptor)]
    /\ UNCHANGED notAudio

InitAudio ==
    /\ InitFeature
    /\ video = QuietVideo
    /\ call = IdleCall
    /\ binder = IdleBinder
    /\ captures = <<>>
    /\ parser = IdleParser
    /\ IdleBackend
    /\ repo = IdleRepo
    /\ poller = IdlePoller
    /\ audio \in {[tool |-> "backend", descriptor |-> d, pc |-> "Probed",
                   flagged |-> FALSE] : d \in AudioStreams}
                 \cup {[tool |-> "cli", descriptor |-> d, pc |-> "Probed",
                        flagged |-> FALSE] : d \in AudioInfos}

NextAudio == DetectAudioIssues \/ NeedsAudioFix

SpecAudio == InitAudio /\ [][NextAudio]_vars

(***************************************************************************)
(* Claims about the audio inspection                                       *)
(***************************************************************************)

\* What the inspected descriptor says: its channel count and its sample
\* rate, None when the field is missing or is no number, and whether it
\* names a codec.
ChannelsOf(a) ==
    IF a.tool = "cli" THEN a.descriptor.channels
    ELSE IF a.descriptor.channels.t = "number"
         THEN Some(a.descriptor.channels.n) ELSE None

SampleRateOf(a) ==
    IF a.tool = "cli" THEN a.descriptor.sample_rate
    ELSE IF a.descriptor.sample_rate.t = "undefined" THEN None
         ELSE parseInt(a.descriptor.sample_rate)

CodecPresent(a) ==
    IF a.tool = "cli"
    THEN a.descriptor.codec_name \notin {None, Some("")}
    ELSE a.descriptor.codec_name.t = "string" /\ a.descriptor.codec_name.s # <<>>

\* C17: the audio inspection flags a descriptor whose channel count is 0,
\* whose sample rate is below 8000 Hz or whose codec is absent, and does not
\* flag a descriptor with at least one channel, a sample rate of at least
\* 8000 Hz and a codec; for every descriptor, missing fields included.
C17_FlagsExactlyBadAudio ==
    audio.pc = "Inspected" =>
        LET ch == ChannelsOf(audio)
            sr == SampleRateOf(audio)
        IN /\ (\/ ch = Some(0)
               \/ IsSome(sr) /\ The(sr) < MinSampleRate
               \/ ~CodecPresent(audio)) => audio.flagged
           /\ (/\ IsSome(ch) /\ The(ch) >= 1
               /\ IsSome(sr) /\ The(sr) >= MinSampleRate
               /\ CodecPresent(audio)) => ~audio.flagged

(***************************************************************************)
(* The backend: processVideoFile                                           *)
(* (src/backend/src/services/videoProcessor.js:196-284), POST              *)
(* /api/analysis/analyze (src/backend/src/routes/analysis.js:20-280) and   *)
(* DELETE /api/reports/:reportId (src/backend/src/routes/reports.js:       *)
(* 259-292) over one SQLite database (src/unnamed/part_001).  Every await  *)
(* of a handler is a step, so the handlers interleave at their awaits.     *)
(***************************************************************************)

MaxUploads == 1      \* uploads in one behaviour
MaxAnalyses == 2     \* analyze requests in one behaviour
MaxDeletes == 1      \* delete requests in one behaviour
MaxObservations == 1 \* positive observations in one AI response

VideoIds == 1..MaxUploads
ReportIds == 1..MaxAnalyses
DeleteIds == 1..MaxDeletes

\* An audio stream Gemini accepts, and one it rejects
GoodAudio == [channels |-> Num(2), sample_rate |-> Num(44100),
              codec_name |-> Str(<<"a", "a", "c">>)]
BadAudio == [channels |-> Num(0), sample_rate |-> Num(1000),
             codec_name |-> Undefined]

\* The audio stream the transcode can leave in its output file
RepairedAudio == {GoodAudio, BadAudio}

NoVideoRow == [processing_status |-> "absent", storage_path |-> FALSE]

\* The tables after createTables, src/unnamed/part_001:30-150.  No PRAGMA
\* foreign_keys is issued, so whether the FOREIGN KEY clauses are enforced
\* is the default of the SQLite build.
InitDb ==
    {[foreign_keys |-> fk,
      videos |-> [v \in VideoIds |-> NoVideoRow],
      analysis_reports |-> [r \in ReportIds |-> "absent"],
      violations |-> {},
      positive_observations |-> {},
      report_metadata |-> {}] : fk \in BOOLEAN}

IdleIngest == [pc |-> "Idle", output |-> None]

IdleAnalyze == [pc |-> "Idle", video |-> 0, saw |-> "nothing", report |-> 0,
                aiCalled |-> FALSE, nViolations |-> 0, i |-> 0,
                nObservations |-> 0, j |-> 0, status |-> 0]

IdleDelete == [pc |-> "Idle", report |-> 0, status |-> 0]

\* The rows of a child table that belong to report r
RowsOf(table, r) == {row \in table : row.report_id = r}

HasChildren(d, r) ==
    \/ RowsOf(d.violations, r) # {}
    \/ RowsOf(d.positive_observations, r) # {}
    \/ RowsOf(d.report_metadata, r) # {}

\* An INSERT of a child row of report r violates its FOREIGN KEY
ForeignKeyFails(d, r) == d.foreign_keys /\ d.analysis_reports[r] = "absent"

---------------------------------------------------------------------------
\* processVideoFile; k is the uuid of the video

\* POST /api/video/upload calls processVideoFile
IngestStarts(k) ==
    /\ ingests[k].pc = "Idle"
    /\ ingests' = [ingests EXCEPT ![k].pc = "Analyzing"]
    /\ UNCHANGED <<db, areqs, dreqs, notBackend>>

\* await this.analyzeVideo(originalPath), line 209
IngestAnalyzed(k, ok) ==
    /\ ingests[k].pc = "Analyzing"
    /\ ingests' = [ingests EXCEPT ![k].pc = IF ok THEN "Inserting" ELSE "Failed"]
    /\ UNCHANGED <<db, areqs, dreqs, notBackend>>

\* INSERT INTO videos ... 'processing', lines 212-227
IngestInserted(k, ok) ==
    /\ ingests[k].pc = "Inserting"
    /\ IF ok
       THEN /\ db' = [db EXCEPT !.videos[k].processing_status = "processing"]
            /\ ingests' = [ingests EXCEPT ![k].pc = "Transcoding"]
       ELSE /\ db' = db
            /\ ingests' = [ingests EXCEPT ![k].pc = "Failed"]
    /\ UNCHANGED <<areqs, dreqs, notBackend>>

\* await this.processVideo(...), lines 233-242: needsProcessing is always
\* true; ffmpeg ends, leaving an output file, or reports an error
IngestTranscoded(k, ok, out) ==
    /\ ingests[k].pc = "Transcoding"
    /\ ingests' = [ingests EXCEPT ![k].pc = IF ok THEN "Completing" ELSE "Failed",
                                  ![k].output = IF ok THEN Some(out) ELSE None]
    /\ UNCHANGED <<db, areqs, dreqs, notBackend>>

\* UPDATE videos SET processing_status = 'completed', lines 245-254
IngestCompleted(k, ok) ==
    /\ ingests[k].pc = "Completing"
    /\ IF ok
       THEN /\ db' = [db EXCEPT !.videos[k] = [processing_status |-> "completed",
                                               storage_path |-> TRUE]]
            /\ ingests' = [ingests EXCEPT ![k].pc = "Unlinking"]
       ELSE /\ db' = db
            /\ ingests' = [ingests EXCEPT ![k].pc = "Failed"]
    /\ UNCHANGED <<areqs, dreqs, notBackend>>

\* await fs.unlink(originalPath) and the return, lines 257-268
IngestUnlinked(k, ok) ==
    /\ ingests[k].pc = "Unlinking"
    /\ ingests' = [ingests EXCEPT ![k].pc = IF ok THEN "Returned" ELSE "Failed"]
    /\ UNCHANGED <<db, areqs, dreqs, notBackend>>

\* The catch block, lines 270-283: UPDATE ... 'error' WHERE id, then rethrow
IngestCaught(k) ==
    /\ ingests[k].pc = "Failed"
    /\ db' = IF db.videos[k].processing_status # "absent"
             THEN [db EXCEPT !.videos[k].processing_status = "error"]
             ELSE db
    /\ ingests' = [ingests EXCEPT ![k].pc = "Thrown"]
    /\ UNCHANGED <<areqs, dreqs, notBackend>>

---------------------------------------------------------------------------
\* POST /api/analysis/analyze; a is the request, and the uuid of its report

\* A video the route analyzes whatever its status.
EligibleAlways(row) == TRUE

\* video.processing_status !== 'completed' is false, line 49
Eligible(row) == row.processing_status = "completed"

\* The request arrives, the requests being numbered in their order of
\* arrival; SELECT * FROM videos WHERE id, lines 37-54
AnalyzeLooksUp(a, v) ==
    /\ areqs[a].pc = "Idle"
    /\ \A b \in ReportIds : b < a => areqs[b].pc # "Idle"
    /\ LET row == db.videos[v]
           r == [areqs[a] EXCEPT !.video = v, !.saw = row.processing_status]
       IN areqs' = [areqs EXCEPT ![a] =
             IF row.processing_status = "absent"
             THEN [r EXCEPT !.pc = "Done", !.status = 404]
             ELSE IF ~Eligible(row)
                  THEN [r EXCEPT !.pc = "Done", !.status = 400]
                  ELSE [r EXCEPT !.pc = "GettingPath"]]
    /\ UNCHANGED <<db, ingests, dreqs, notBackend>>

\* videoProcessor.getVideoPath(videoId), lines 57-63
AnalyzeGetsPath(a) ==
    /\ areqs[a].pc = "GettingPath"
    /\ areqs' = [areqs EXCEPT ![a] =
          IF db.videos[areqs[a].video].storage_path
          THEN [@ EXCEPT !.pc = "InsertingReport"]
          ELSE [@ EXCEPT !.pc = "Done", !.status = 404]]
    /\ UNCHANGED <<db, ingests, dreqs, notBackend>>

\* INSERT INTO analysis_reports ... 'processing', lines 68-73
AnalyzeInsertsReport(a) ==
    /\ areqs[a].pc = "InsertingReport"
    /\ db' = [db EXCEPT !.analysis_reports[a] = "processing"]
    /\ areqs' = [areqs EXCEPT ![a].pc = "ReadingFile", ![a].report = a]
    /\ UNCHANGED <<ingests, dreqs, notBackend>>

\* fs.readFile(videoPath), line 79
AnalyzeReadsFile(a, ok) ==
    /\ areqs[a].pc = "ReadingFile"
    /\ areqs' = [areqs EXCEPT ![a].pc = IF ok THEN "CallingAI" ELSE "Failed"]
    /\ UNCHANGED <<db, ingests, dreqs, notBackend>>

\* model.generateContent and the parse of its text, lines 124-160: the
\* response lists n violations and m positive observations
AnalyzeCallsAI(a, ok, n, m) ==
    /\ areqs[a].pc = "CallingAI"
    /\ areqs' = [areqs EXCEPT ![a].aiCalled = TRUE,
                              ![a].pc = IF ok THEN "SavingReport" ELSE "Failed",
                              ![a].nViolations = IF ok THEN n ELSE 0,
                              ![a].nObservations = IF ok THEN m ELSE 0]
    /\ UNCHANGED <<db, ingests, dreqs, notBackend>>

\* Where the handler goes after violation i
AfterViolation(r, i) ==
    IF i < r.nViolations THEN [r EXCEPT !.pc = "InsertingViolation", !.i = i + 1]
    ELSE IF r.nObservations > 0
         THEN [r EXCEPT !.pc = "InsertingObservation", !.j = 1]
         ELSE [r EXCEPT !.pc = "InsertingMetadata"]

\* UPDATE analysis_reports SET ... status = 'completed' WHERE id, lines 163-175
AnalyzeSavesReport(a) ==
    /\ areqs[a].pc = "SavingReport"
    /\ db' = IF db.analysis_reports[a] # "absent"
             THEN [db EXCEPT !.analysis_reports[a] = "completed"]
             ELSE db
    /\ areqs' = [areqs EXCEPT ![a] = AfterViolation(@, 0)]
    /\ UNCHANGED <<ingests, dreqs, notBackend>>

\* INSERT INTO violations, lines 181-197
AnalyzeInsertsViolation(a) ==
    /\ areqs[a].pc = "InsertingViolation"
    /\ IF ForeignKeyFails(db, a)
       THEN /\ db' = db
            /\ areqs' = [areqs EXCEPT ![a].pc = "Failed"]
       ELSE /\ db' = [db EXCEPT !.violations = @ \cup
                        {[report_id |-> a, n |-> areqs[a].i, thumbnail_path |-> FALSE]}]
            /\ areqs' = [areqs EXCEPT ![a].pc = "GeneratingThumbnail"]
    /\ UNCHANGED <<ingests, dreqs, notBackend>>

\* A thumbnail step of analysis.js that lets its failure out of the loop.
ThumbnailFailureThrows(a, ok) ==
    /\ areqs[a].pc = "GeneratingThumbnail"
    /\ areqs' = [areqs EXCEPT ![a].pc = IF ok THEN "SavingThumbnail" ELSE "Failed"]
    /\ UNCHANGED <<db, ingests, dreqs, notBackend>>

\* videoProcessor.generateThumbnail, lines 200-202 and 209-211
AnalyzeGeneratesThumbnail(a, ok) ==
    /\ areqs[a].pc = "GeneratingThumbnail"
    /\ areqs' = [areqs EXCEPT ![a] =
          IF ok THEN [@ EXCEPT !.pc = "SavingThumbnail"]
          ELSE AfterViolation(@, @.i)]
    /\ UNCHANGED <<db, ingests, dreqs, notBackend>>

\* UPDATE violations SET thumbnail_path = ? WHERE id, lines 204-208
AnalyzeSavesThumbnail(a) ==
    /\ areqs[a].pc = "SavingThumbnail"
    /\ db' = [db EXCEPT !.violations =
                {IF row.report_id = a /\ row.n = areqs[a].i
                 THEN [row EXCEPT !.thumbnail_path = TRUE] ELSE row : row \in @}]
    /\ areqs' = [areqs EXCEPT ![a] = AfterViolation(@, @.i)]
    /\ UNCHANGED <<ingests, dreqs, notBackend>>

\* INSERT INTO positive_observations, lines 216-223
AnalyzeInsertsObservation(a) ==
    /\ areqs[a].pc = "InsertingObservation"
    /\ IF ForeignKeyFails(db, a)
       THEN /\ db' = db
            /\ areqs' = [areqs EXCEPT ![a].pc = "Failed"]
       ELSE /\ db' = [db EXCEPT !.positive_observations = @ \cup
                        {[report_id |-> a, n |-> areqs[a].j]}]
            /\ areqs' = [areqs EXCEPT ![a] =
                  IF @.j < @.nObservations
                  THEN [@ EXCEPT !.j = @ + 1]
                  ELSE [@ EXCEPT !.pc = "InsertingMetadata"]]
    /\ UNCHANGED <<ingests, dreqs, notBackend>>

\* INSERT INTO report_metadata and res.json, lines 226-252
AnalyzeInsertsMetadata(a) ==
    /\ areqs[a].pc = "InsertingMetadata"
    /\ IF ForeignKeyFails(db, a)
       THEN /\ db' = db
            /\ areqs' = [areqs EXCEPT ![a].pc = "Failed"]
       ELSE /\ db' = [db EXCEPT !.report_metadata = @ \cup {[report_id |-> a]}]
            /\ areqs' = [areqs EXCEPT ![a].pc = "Done", ![a].status = 200]
    /\ UNCHANGED <<ingests, dreqs, notBackend>>

\* catch (analysisError), lines 254-269
AnalyzeCaught(a) ==
    /\ areqs[a].pc = "Failed"
    /\ db' = IF db.analysis_reports[a] # "absent"
             THEN [db EXCEPT !.analysis_reports[a] = "error"]
             ELSE db
    /\ areqs' = [areqs EXCEPT ![a].pc = "Done", ![a].status = 500]
    /\ UNCHANGED <<ingests, dreqs, notBackend>>

---------------------------------------------------------------------------
\* DELETE /api/reports/:reportId; d is the request

\* SELECT id FROM analysis_reports WHERE id, lines 265-271
DeleteLooksUp(d, r) ==
    /\ dreqs[d].pc = "Idle"
    /\ \A e \in DeleteIds : e < d => dreqs[e].pc # "Idle"
    /\ dreqs' = [dreqs EXCEPT ![d] =
          IF db.analysis_reports[r] = "absent"
          THEN [@ EXCEPT !.report = r, !.pc = "Done", !.status = 404]
          ELSE [@ EXCEPT !.report = r, !.pc = "DeletingViolations"]]
    /\ UNCHANGED <<db, ingests, areqs, notBackend>>

\* DELETE FROM violations WHERE report_id, line 274
DeleteViolations(d) ==
    /\ dreqs[d].pc = "DeletingViolations"
    /\ db' = [db EXCEPT !.violations = @ \ RowsOf(@, dreqs[d].report)]
    /\ dreqs' = [dreqs EXCEPT ![d].pc = "DeletingObservations"]
    /\ UNCHANGED <<ingests, areqs, notBackend>>

\* DELETE FROM positive_observations WHERE report_id, line 275
DeleteObservations(d) ==
    /\ dreqs[d].pc = "DeletingObservations"
    /\ db' = [db EXCEPT !.positive_observations = @ \ RowsOf(@, dreqs[d].report)]
    /\ dreqs' = [dreqs EXCEPT ![d].pc = "DeletingMetadata"]
    /\ UNCHANGED <<ingests, areqs, notBackend>>

\* DELETE FROM report_metadata WHERE report_id, line 276
DeleteMetadata(d) ==
    /\ dreqs[d].pc = "DeletingMetadata"
    /\ db' = [db EXCEPT !.report_metadata = @ \ RowsOf(@, dreqs[d].report)]
    /\ dreqs' = [dreqs EXCEPT ![d].pc = "DeletingReport"]
    /\ UNCHANGED <<ingests, areqs, notBackend>>

\* DELETE FROM analysis_reports WHERE id and the response, lines 277-291
DeleteReport(d) ==
    /\ dreqs[d].pc = "DeletingReport"
    /\ IF db.foreign_keys /\ HasChildren(db, dreqs[d].report)
       THEN /\ db' = db
            /\ dreqs' = [dreqs EXCEPT ![d].pc = "Done", ![d].status = 500]
       ELSE /\ db' = [db EXCEPT !.analysis_reports[dreqs[d].report] = "absent"]
            /\ dreqs' = [dreqs EXCEPT ![d].pc = "Done", ![d].status = 200]
    /\ UNCHANGED <<ingests, areqs, notBackend>>

---------------------------------------------------------------------------

InitBackend ==
    /\ InitFeature
    /\ video = QuietVideo
    /\ call = IdleCall
    /\ binder = IdleBinder
    /\ captures = <<>>
    /\ parser = IdleParser
    /\ audio = IdleAudio
    /\ repo = IdleRepo
    /\ poller = IdlePoller
    /\ db \in InitDb
    /\ ingests = [k \in VideoIds |-> IdleIngest]
    /\ areqs = [a \in ReportIds |-> IdleAnalyze]
    /\ dreqs = [d \in DeleteIds |-> IdleDelete]

NextBackend ==
    \/ \E k \in VideoIds : IngestStarts(k)
    \/ \E k \in VideoIds, ok \in BOOLEAN : IngestAnalyzed(k, ok)
    \/ \E k \in VideoIds, ok \in BOOLEAN : IngestInserted(k, ok)
    \/ \E k \in VideoIds, ok \in BOOLEAN, out \in RepairedAudio :
          IngestTranscoded(k, ok, out)
    \/ \E k \in VideoIds, ok \in BOOLEAN : IngestCompleted(k, ok)
    \/ \E k \in VideoIds, ok \in BOOLEAN : IngestUnlinked(k, ok)
    \/ \E k \in VideoIds : IngestCaught(k)
    \/ \E a \in ReportIds, v \in VideoIds : AnalyzeLooksUp(a, v)
    \/ \E a \in ReportIds : AnalyzeGetsPath(a)
    \/ \E a \in ReportIds : AnalyzeInsertsReport(a)
    \/ \E a \in ReportIds, ok \in BOOLEAN : AnalyzeReadsFile(a, ok)
    \/ \E a \in ReportIds, ok \in BOOLEAN, n \in 0..MaxViolations,
          m \in 0..MaxObservations : AnalyzeCallsAI(a, ok, n, m)
    \/ \E a \in ReportIds : AnalyzeSavesReport(a)
    \/ \E a \in ReportIds : AnalyzeInsertsViolation(a)
    \/ \E a \in ReportIds, ok \in BOOLEAN : AnalyzeGeneratesThumbnail(a, ok)
    \/ \E a \in ReportIds : AnalyzeSavesThumbnail(a)
    \/ \E a \in ReportIds : AnalyzeInsertsObservation(a)
    \/ \E a \in ReportIds : AnalyzeInsertsMetadata(a)
    \/ \E a \in ReportIds : AnalyzeCaught(a)
    \/ \E d \in DeleteIds, r \in ReportIds : DeleteLooksUp(d, r)
    \/ \E d \in DeleteIds : DeleteViolations(d)
    \/ \E d \in DeleteIds : DeleteObservations(d)
    \/ \E d \in DeleteIds : DeleteMetadata(d)
    \/ \E d \in DeleteIds : DeleteReport(d)

SpecBackend == InitBackend /\ [][NextBackend]_vars

(***************************************************************************)
(* Claims about the backend                                                *)
(***************************************************************************)

\* C14: a video whose repaired output still fails the audio inspection never
\* becomes eligible for analysis: a videos row with processing_status
\* 'completed' belongs to an output file in which the inspection finds no
\* audio issue.
C14_CompletedOnlyIfAudioPasses ==
    \A k \in VideoIds :
        db.videos[k].processing_status = "completed" =>
            /\ IsSome(ingests[k].output)
            /\ detectAudioIssues(The(ingests[k].output)) = None

\* The analyze request has been turned away with the given status, without
\* a report and without a call of the AI.
TurnedAway(a, status) ==
    /\ areqs[a].pc = "Done"
    /\ areqs[a].status = status
    /\ areqs[a].report = 0
    /\ ~areqs[a].aiCalled

\* C15: the analyze route makes no AI call and creates no report for a video
\* id without a row (it answers 404) or with a row whose processing_status
\* it read is not 'completed' (it answers 400); every report row was created
\* by a request that read 'completed'; and a row is 'completed' only after
\* the repair transcode of that video has finished successfully.
C15_AnalyzedOnlyAfterIngest ==
    /\ \A a \in ReportIds :
          /\ areqs[a].pc # "Idle" /\ areqs[a].saw = "absent" => TurnedAway(a, 404)
          /\ areqs[a].pc # "Idle" /\ areqs[a].saw \notin {"absent", "completed"}
                => TurnedAway(a, 400)
          /\ areqs[a].aiCalled \/ areqs[a].report # 0 \/ db.analysis_reports[a] # "absent"
                => /\ areqs[a].saw = "completed"
                   /\ IsSome(ingests[areqs[a].video].output)
    /\ \A k \in VideoIds :
          db.videos[k].processing_status = "completed" => IsSome(ingests[k].output)

\* C15 witness: one request was turned away while the video was still being
\* processed, and a later one for the same video has called the AI.
C15_Witness ==
    /\ TurnedAway(1, 400)
    /\ areqs[1].saw = "processing"
    /\ areqs[2].video = areqs[1].video
    /\ areqs[2].aiCalled
    /\ areqs[2].report = 2

\* C16: once DELETE /api/reports/:reportId has answered with success, no
\* violations, positive_observations or report_metadata row has the deleted
\* report as its report_id, in any later state and whatever interleaves.
C16_DeleteCascades ==
    \A d \in DeleteIds :
        dreqs[d].pc = "Done" /\ dreqs[d].status = 200 =>
            ~HasChildren(db, dreqs[d].report)

(***************************************************************************)
(* The report store on its own: addVideoAnalysisReport and                 *)
(* getVideoAnalysisReportById, src/services/apiService.ts:21-35, with the  *)
(* clock Date.now() reads.  setTimeout gives a least delay only, so an add *)
(* resumes at any millisecond from its call on.                            *)
(***************************************************************************)

MaxAdds == 3    \* addVideoAnalysisReport calls in one behaviour
MaxClock == 2   \* milliseconds the clock advances in one behaviour

\* What a caller saves
ReportData ==
    [violations : {<<>>, <<AViolation>>}, summary : {"ok", "unsafe"},
     safetyScore : {90, 40}]

\* mockVideoAnalysisReports.find(r => r.id === id), None for undefined
FindById(reports, id) ==
    IF IndexOfId(reports, id) = 0 THEN None ELSE Some(reports[IndexOfId(reports, id)])

\* A millisecond passes.
Tick ==
    /\ repo.now < MaxClock
    /\ repo' = [repo EXCEPT !.now = @ + 1]
    /\ UNCHANGED notRepo

\* addVideoAnalysisReport(reportData) up to its await delay(400)
AddCalled(reportData) ==
    /\ repo.called < MaxAdds
    /\ repo' = [repo EXCEPT !.adds = Append(@, reportData), !.called = @ + 1]
    /\ UNCHANGED notRepo

\* addVideoAnalysisReport after the delay: push and return newReport
AddReturns(k) ==
    /\ k \in DOMAIN repo.adds
    /\ LET newReport == NewReport(repo.adds[k], repo.now)
       IN repo' = [repo EXCEPT
                     !.reports = Append(@, newReport),
                     !.adds = RemoveAt(@, k),
                     !.saved = Append(@, [id |-> newReport.id, data |-> repo.adds[k]])]
    /\ UNCHANGED notRepo

\* getVideoAnalysisReportById(id) with the id the s-th add returned
GetById(s) ==
    /\ s \in DOMAIN repo.saved
    /\ repo' = [repo EXCEPT !.got = Some([of |-> s,
                                          report |-> FindById(repo.reports,
                                                              repo.saved[s].id)])]
    /\ UNCHANGED notRepo

InitRepo ==
    /\ InitFeature
    /\ video = QuietVideo
    /\ call = IdleCall
    /\ binder = IdleBinder
    /\ captures = <<>>
    /\ parser = IdleParser
    /\ audio = IdleAudio
    /\ IdleBackend
    /\ repo = IdleRepo
    /\ poller = IdlePoller

NextRepo ==
    \/ Tick
    \/ \E reportData \in ReportData : AddCalled(reportData)
    \/ \E k \in DOMAIN repo.adds : AddReturns(k)
    \/ \E s \in DOMAIN repo.saved : GetById(s)

SpecRepo == InitRepo /\ [][NextRepo]_vars

\* C18: a report saved with addVideoAnalysisReport and fetched later with
\* the id that call returned has the violations, the summary and the
\* safetyScore that were saved, whatever other saves came in between.
C18_RoundTrip ==
    IsSome(repo.got) =>
        LET asked == repo.saved[The(repo.got).of].data
            found == The(repo.got).report
        IN /\ IsSome(found)
           /\ The(found).violations = asked.violations
           /\ The(found).summary = asked.summary
           /\ The(found).safetyScore = asked.safetyScore

(***************************************************************************)
(* Claims about the failures of captureFrameAtTime                         *)
(***************************************************************************)

\* C19: once the seek is issued, a media error before the seek completes
\* and the 7 s timer both reject the call, which never resolves afterwards;
\* a 'seeked' event after the rejection changes nothing of the call.
C19_RejectsOnSeekFailure ==
    [][/\ (call.pc = "Seeking" /\ (FireError \/ SeekTimeoutFires))
            => (call'.pc = "Rejected" /\ call'.settles = 1)
       /\ call.pc = "Rejected" => call'.pc = "Rejected" /\ call'.draws = call.draws
       /\ (call.pc = "Rejected" /\ FireSeeked) => call' = call]_vars

\* C19 witness: the 7 s timer has rejected the call and the 'seeked' event
\* of its seek has arrived afterwards.
C19_Witness ==
    /\ call.pc = "Rejected"
    /\ call.seeks = 1
    /\ ~video.failed
    /\ ~video.seeking

\* C20: when the 5 s timer fires while the call waits for metadata, the call
\* resolves with null and has issued no seek; after that no event changes
\* the call or starts a seek, a late 'loadedmetadata' included.
C20_MetadataTimeoutResolvesNull ==
    [][/\ (call.pc = "AwaitingMetadata" /\ MetaTimeoutFires)
            => (call'.pc = "ResolvedNull" /\ call'.seeks = 0 /\ call'.settles = 1)
       /\ (call.pc = "ResolvedNull" /\ call.seeks = 0)
            => (call' = call /\ video'.seeking = video.seeking)]_vars

\* C20 witness: the call has resolved with null without a seek, and the
\* metadata has arrived after that.
C20_Witness ==
    /\ call.pc = "ResolvedNull"
    /\ call.seeks = 0
    /\ video.readyState = HAVE_METADATA
    /\ ~video.seeking

(***************************************************************************)
(* Claims about the exits and the settlement of captureFrameAtTime         *)
(***************************************************************************)

C22_ZeroSizeResolvesNull ==
    [][/\ (/\ call.pc = "Rendering"
           /\ (video.videoWidth = 0 \/ video.videoHeight = 0)
           /\ AnimationFrame)
            => (/\ call'.pc = "ResolvedNull"
                /\ call'.draws = call.draws
                /\ call'.settles = 1)
       /\ (call.pc = "Rendering" /\ (video.videoWidth = 0 \/ video.videoHeight = 0))
            => call'.pc \in {"Rendering", "ResolvedNull"}]_vars

\* C22 witness: the seek has completed on a video without native size and
\* the call has resolved with null.
C22_Witness ==
    /\ call.pc = "ResolvedNull"
    /\ call.seeks = 1
    /\ call.draws = 0
    /\ ~call.raf
    /\ (video.videoWidth = 0 \/ video.videoHeight = 0)

\* C27: a call calls resolve or reject at most once and issues at most one
\* seek; once it is settled, no event and no timer changes its outcome,
\* draws a frame or starts a seek.
C27_SettlesOnce ==
    [][/\ call'.settles <= 1
       /\ call'.seeks <= 1
       /\ call.pc \in Settled
            => (/\ call'.pc = call.pc
                /\ call'.draws = call.draws
                /\ call'.seeks = call.seeks)]_vars

\* C27 witness: the call has drawn its frame and resolved, and the decoder
\* has raised an error after that.
C27_Witness ==
    /\ call.pc = "ResolvedImage"
    /\ call.draws = 1
    /\ call.settles = 1
    /\ video.failed

(***************************************************************************)
(* handleAnalyzeVideo from the upload to the parse block,                  *)
(* src/App.tsx:284-318, with analyzeUploadedVideo,                         *)
(* src/services/geminiService.ts:96-200                                    *)
(*                                                                         *)
(* The response of the AI is one of the Texts, inside a code fence or not. *)
(***************************************************************************)

Responses == {[text |-> t, fenced |-> f] : t \in Texts, f \in BOOLEAN}

\* jsonStr after trim() and the fence regex, geminiService.ts:163-168
StripFence(response) == response.text

\* geminiService.ts:102-104
NoKeyText ==
    [members |-> <<<<"error", "API_KEY for Gemini is not configured.">>>>,
     form |-> "object"]

\* The inner catch, geminiService.ts:173-184
NotValidJSON(response) ==
    [members |-> <<<<"error", "Gemini response was not valid JSON.">>,
                   <<"rawResponse", response>>,
                   <<"summary", "Failed to parse analysis.">>,
                   <<"safetyScore", 0>>,
                   <<"violations", <<>>>>,
                   <<"positiveObservations", <<>>>>>>,
     form |-> "object"]

\* The outer catch, geminiService.ts:186-199
TransportError ==
    [members |-> <<<<"error", "Error analyzing video with Gemini: failed">>,
                   <<"summary", "Failed to analyze video.">>,
                   <<"safetyScore", 0>>,
                   <<"violations", <<>>>>,
                   <<"positiveObservations", <<>>>>>>,
     form |-> "object"]

\* geminiService.ts:170-184: the text itself when JSON.parse accepts it
Returned(response) ==
    IF SyntaxError(StripFence(response))
    THEN NotValidJSON(response)
    ELSE StripFence(response)

\* uploadVideoFile throws: the catch block of the handler, App.tsx:310-314
HandlerUploadThrows ==
    /\ parser.pc = "Uploading"
    /\ parser' = [parser EXCEPT
           !.pc = "Failed",
           !.analysisResult = Some([error |-> "Failed to upload or analyze video.",
                                    violations |-> <<>>])]
    /\ UNCHANGED notParser

\* uploadVideoFile returns, App.tsx:285-290
HandlerUploadReturns ==
    /\ parser.pc = "Uploading"
    /\ parser' = [parser EXCEPT !.pc = "Calling"]
    /\ UNCHANGED notParser

\* analyzeUploadedVideo finds no API key
ServiceNoKey ==
    /\ parser.pc = "Calling"
    /\ parser' = [parser EXCEPT !.pc = "Analyzing", !.raw = NoKeyText]
    /\ UNCHANGED notParser

\* generateContent rejects, or its response has no text
GenerateThrows ==
    /\ parser.pc = "Calling"
    /\ parser' = [parser EXCEPT !.pc = "Analyzing", !.raw = TransportError]
    /\ UNCHANGED notParser

\* generateContent returns the response of the AI
GenerateReturns ==
    /\ parser.pc = "Calling"
    /\ parser' = [parser EXCEPT !.pc = "Analyzing",
                                !.raw = Returned(parser.response)]
    /\ UNCHANGED notParser

\* After setAnalysisResult(null), App.tsx:280
InitHandler ==
    /\ InitFeature
    /\ video = QuietVideo
    /\ call = IdleCall
    /\ binder = IdleBinder
    /\ captures = <<>>
    /\ audio = IdleAudio
    /\ IdleBackend
    /\ repo = IdleRepo
    /\ poller = IdlePoller
    /\ parser \in {[response |-> r, raw |-> None, pc |-> "Uploading",
                    rawGeminiResponse |-> None, analysisResult |-> None] :
                      r \in Responses}

NextHandler ==
    \/ HandlerUploadThrows
    \/ HandlerUploadReturns
    \/ ServiceNoKey
    \/ GenerateThrows
    \/ GenerateReturns
    \/ ParseResponse

SpecHandler == InitHandler /\ [][NextHandler]_vars

(***************************************************************************)
(* Claims about the result of an analysis                                  *)
(***************************************************************************)

\* C25: when the AI text decodes to an object with an error field, the
\* analysis result has that error and has exactly the violations of the
\* decoded object, the empty list when the object has none.
C25_ErrorKeepsViolations ==
    (/\ parser.pc = "Parsed"
     /\ parser.raw.form = "object"
     /\ "error" \in DOMAIN JSONparse(parser.raw)) =>
        LET r == The(parser.analysisResult)
            parsed == JSONparse(parser.raw)
        IN /\ "error" \in DOMAIN r /\ r.error = parsed.error
           /\ "violations" \in DOMAIN r
           /\ r.violations = IF "violations" \in DOMAIN parsed
                             THEN parsed.violations ELSE <<>>

\* C26: when handleAnalyzeVideo has finished, through its catch block or
\* through the parse block, analysisResult is an object that has a list of
\* violations.
C26_ResultWellFormed ==
    parser.pc \in {"Parsed", "Failed"} =>
        /\ IsSome(parser.analysisResult)
        /\ "violations" \in DOMAIN The(parser.analysisResult)
        /\ The(parser.analysisResult).violations \in {<<>>, <<AViolation>>}

(***************************************************************************)
(* The two thumbnail loops: a run follows either the batch of the front    *)
(* end, src/App.tsx:359-374, or the backend,                               *)
(* src/backend/src/routes/analysis.js:178-213                              *)
(***************************************************************************)

InitLoops == InitBinder \/ InitBackend

NextLoops ==
    \/ binder.violations # <<>> /\ NextBinder
    \/ DOMAIN areqs # {} /\ NextBackend

SpecLoops == InitLoops /\ [][NextLoops]_vars

\* The violations after i that have no thumbnail status yet.
PendingAfter(vs, i) == {j \in DOMAIN vs : j > i /\ vs[j].thumb = "absent"}

\* C24: a capture of the batch that fails, by returning null or by
\* rejecting, records null for its violation, leaves the results of the
\* violations before it as they were and is followed by the capture of the
\* next pending violation, if there is one; in the backend a thumbnail that
\* fails changes no row and is followed by the INSERT of the next
\* violation, if there is one, and else by the steps after the loop.
C24_FailureDoesNotAbort ==
    [][/\ (/\ binder.pc = "Capturing"
           /\ binder' # binder
           /\ captures'[Len(captures)].outcome \in {"null", "rejected"})
            => LET i == binder.i
                   rest == PendingAfter(binder.updated, i)
               IN /\ \A j \in DOMAIN binder.updated :
                        binder'.updated[j] =
                           IF j = i THEN [binder.updated[i] EXCEPT !.thumb = "null"]
                           ELSE binder.updated[j]
                  /\ IF rest = {}
                     THEN binder'.pc = "Done" /\ Len(captures') = Len(captures)
                     ELSE /\ binder'.pc = "Capturing"
                          /\ binder'.i \in rest
                          /\ \A j \in rest : binder'.i <= j
                          /\ Len(captures') = Len(captures) + 1
                          /\ captures'[Len(captures')].i = binder'.i
                          /\ captures'[Len(captures')].outcome = "pending"
       /\ \A a \in DOMAIN areqs :
             (/\ areqs[a].pc = "GeneratingThumbnail"
              /\ areqs'[a] # areqs[a]
              /\ areqs'[a].pc # "SavingThumbnail")
               => /\ db' = db
                  /\ IF areqs[a].i < areqs[a].nViolations
                     THEN /\ areqs'[a].pc = "InsertingViolation"
                          /\ areqs'[a].i = areqs[a].i + 1
                     ELSE areqs'[a].pc \in {"InsertingObservation",
                                            "InsertingMetadata"}]_vars

\* C24 witness: in the backend the thumbnail of the first violation of a
\* report has failed and the row of its second violation has been inserted.
C24_Witness ==
    \E a \in DOMAIN areqs :
        /\ areqs[a].i = 2
        /\ areqs[a].pc = "GeneratingThumbnail"
        /\ [report_id |-> a, n |-> 1, thumbnail_path |-> FALSE] \in db.violations
        /\ [report_id |-> a, n |-> 2, thumbnail_path |-> FALSE] \in db.violations

(***************************************************************************)
(* Claims about the failures of processVideoFile                           *)
(***************************************************************************)

\* C30: when processVideoFile has failed at one of its steps and has thrown
\* to its caller, the videos table has a row of that video id whose
\* processing_status is 'error'.
C30_FailureRecorded ==
    \A k \in DOMAIN ingests :
        ingests[k].pc = "Thrown" => db.videos[k].processing_status = "error"

(***************************************************************************)
(* Claims about a player that does not become ready                        *)
(***************************************************************************)

\* C23: when the player raises an error while a batch waits for it, every
\* violation of the object on display that had no thumbnail status is
\* marked as failed, and no batch goes on to a capture.
C23_UnreadyMarksFailed ==
    [][(/\ player = "loading"
        /\ player' = "failed"
        /\ \E k \in DOMAIN batches : Waiting(batches[k]))
         => (/\ WithoutThumbnails(CurrentViolations(ui')) = {}
             /\ \A k \in DOMAIN batches' : batches'[k].pc # "Capturing"
                    \/ \E j \in DOMAIN batches : batches[j] = batches'[k])]_vars

\* C28: whenever isGeneratingThumbnails is true, it is false again at some
\* later time.
C28_GeneratingEventuallyEnds ==
    ui.isGeneratingThumbnails ~> ~ui.isGeneratingThumbnails

(***************************************************************************)
(* uploadVideoFile, src/services/geminiService.ts:19-94                    *)
(***************************************************************************)

MAX_POLLING_ATTEMPTS == 36

\* What ai.files.get can answer: the state of the file, with a uri or not.
FileStatuses ==
    [state : {"PROCESSING", "ACTIVE", "FAILED", "STATE_UNSPECIFIED"},
     uri : BOOLEAN]

\* A loop test that lets one more attempt through.
LoopTestOneMore(p) ==
    IF p.attempts <= MAX_POLLING_ATTEMPTS
    THEN [p EXCEPT !.pc = "Sleeping"]
    ELSE [p EXCEPT !.pc = "Thrown"]

\* `while (attempts < MAX_POLLING_ATTEMPTS)`, and the throw after the loop
LoopTest(p) ==
    IF p.attempts < MAX_POLLING_ATTEMPTS
    THEN [p EXCEPT !.pc = "Sleeping"]
    ELSE [p EXCEPT !.pc = "Thrown"]

\* The call: the API key test of lines 23-25, then ai.files.upload
UploadCalled ==
    /\ poller.pc = "Idle"
    /\ poller' = [poller EXCEPT !.pc = IF poller.key THEN "Uploading" ELSE "Thrown"]
    /\ UNCHANGED notPoller

\* ai.files.upload answers with a name, without one, or rejects
UploadResponds(outcome) ==
    /\ poller.pc = "Uploading"
    /\ poller' = IF outcome = "named"
                 THEN LoopTest([poller EXCEPT !.attempts = 0])
                 ELSE [poller EXCEPT !.pc = "Thrown"]
    /\ UNCHANGED notPoller

\* The 5 s timer of the loop fires: attempts++, ai.files.get is called
PollTimerFires ==
    /\ poller.pc = "Sleeping"
    /\ poller' = [poller EXCEPT !.pc = "Polling", !.attempts = @ + 1,
                                !.polls = @ + 1]
    /\ UNCHANGED notPoller

\* ai.files.get answers, lines 47-81
GetResponds(status) ==
    /\ poller.pc = "Polling"
    /\ LET p == [poller EXCEPT !.last = Some(status)]
       IN poller' =
            IF status.state = "ACTIVE"
            THEN [p EXCEPT !.pc = IF status.uri THEN "Returned" ELSE "Thrown"]
            ELSE IF status.state = "FAILED"
                 THEN [p EXCEPT !.pc = "Thrown"]
                 ELSE LoopTest(p)
    /\ UNCHANGED notPoller

\* ai.files.get rejects: the catch block rethrows, lines 85-93
GetRejects ==
    /\ poller.pc = "Polling"
    /\ poller' = [poller EXCEPT !.pc = "Thrown", !.last = None]
    /\ UNCHANGED notPoller

InitPoller ==
    /\ InitFeature
    /\ video = QuietVideo
    /\ call = IdleCall
    /\ binder = IdleBinder
    /\ captures = <<>>
    /\ parser = IdleParser
    /\ audio = IdleAudio
    /\ IdleBackend
    /\ repo = IdleRepo
    /\ poller \in {[pc |-> "Idle", key |-> key, attempts |-> 0, polls |-> 0,
                    last |-> None] : key \in BOOLEAN}

NextPoller ==
    \/ UploadCalled
    \/ \E outcome \in {"named", "unnamed", "rejected"} : UploadResponds(outcome)
    \/ PollTimerFires
    \/ \E status \in FileStatuses : GetResponds(status)
    \/ GetRejects

SpecPoller == InitPoller /\ [][NextPoller]_vars

\* The timer fires and the requests to the file service settle.
FairSpecPoller ==
    /\ SpecPoller
    /\ WF_vars(\E outcome \in {"named", "unnamed", "rejected"} :
                  UploadResponds(outcome))
    /\ WF_vars(PollTimerFires)
    /\ WF_vars(GetRejects \/ \E status \in FileStatuses : GetResponds(status))

\* The call has returned or thrown.
UploadSettled == poller.pc \in {"Returned", "Thrown"}

\* C29: a call of uploadVideoFile that has started returns or throws, and
\* makes at most MAX_POLLING_ATTEMPTS polls; it returns only when its last
\* poll reported ACTIVE with a uri; a poll that reports FAILED, or ACTIVE
\* without a uri, makes it throw, and so does the last of the allowed polls
\* when it does not report ACTIVE; a call that has returned or thrown makes
\* no further poll.
C29_UploadTerminates ==
    /\ [](/\ poller.polls <= MAX_POLLING_ATTEMPTS
          /\ poller.pc = "Returned" =>
                /\ IsSome(poller.last)
                /\ The(poller.last).state = "ACTIVE"
                /\ The(poller.last).uri)
    /\ [][/\ (poller.pc = "Polling" /\ IsSome(poller'.last)) =>
               LET st == The(poller'.last)
               IN /\ st.state = "FAILED" => poller'.pc = "Thrown"
                  /\ (st.state = "ACTIVE" /\ ~st.uri) => poller'.pc = "Thrown"
                  /\ (st.state # "ACTIVE" /\ poller.polls = MAX_POLLING_ATTEMPTS)
                        => poller'.pc = "Thrown"
          /\ UploadSettled => poller' = poller]_vars
    /\ (poller.pc # "Idle") ~> UploadSettled

\* C29 witness: the call has thrown after MAX_POLLING_ATTEMPTS polls, the
\* last of which still reported PROCESSING.
C29_Witness ==
    /\ poller.pc = "Thrown"
    /\ poller.polls = MAX_POLLING_ATTEMPTS
    /\ IsSome(poller.last)
    /\ The(poller.last).state = "PROCESSING"

====
